---- MODULE Spec2Model ----
(***************************************************************************)
(* A model of tsinfer's matching pipeline (src/tsinfer/inference.py):      *)
(* ResultBuffer, the Matcher base class, AncestorMatcher (epoch scheduled  *)
(* matching with checkpoint and resume) and SampleMatcher.                 *)
(*                                                                         *)
(* numpy arrays are sequences; the Python index i is the TLA+ index i + 1. *)
(***************************************************************************)
EXTENDS Integers, Sequences, FiniteSets, TLC

VARIABLES
    \* ResultBuffer specification (SpecBuf)
    bufs,       \* the ResultBuffer objects under test, a list
    added,      \* per buffer, the records added since its last clear, and its clears
    lastCombined, \* the buffer returned by the last combine, or NoBuffer
    combinedOf, \* how many buffers of the list that combine was given
    appends,    \* number of records appended so far
    \* inputs of a run
    num_threads,       \* the num_threads argument
    ancestors_file,    \* the ancestor store: num_ancestors, time, focal_sites, ...
    sample_haplotypes, \* input_file.sample_haplotypes(), a list of haplotypes
    builder_call,      \* a direct _tsinfer.TreeSequenceBuilder(...) call: the
                       \* platform, the capacities asked for and the outcome
    \* the matcher object (Matcher, AncestorMatcher, SampleMatcher)
    tree_sequence_builder, \* the shared TreeSequenceBuilder
    results,           \* self.results, one ResultBuffer per thread
    match,             \* self.match, one scratch array per thread
    num_matches,       \* self.num_matches, one counter per thread
    mean_traceback_size, \* self.mean_traceback_size, one sum per thread
    start_epoch,       \* self.start_epoch
    haplotypes,        \* self.haplotypes: the id of the ancestor it yields next
    \* the calling thread
    pc,                \* where the calling thread is
    epoch_index,       \* j of the epoch loop / the argument of __complete_epoch
    ancestor_id,       \* loop variable of the dispatch loop
    node_id,           \* the pre-allocated node id of the dispatch loop
    epoch_results,     \* the combined buffer of __complete_epoch / match_samples
    commit_j,          \* j of the commit loop
    \* the work queue and the worker threads
    match_queue,       \* queue.Queue(queue_depth): the items it holds
    unfinished_tasks,  \* Queue.unfinished_tasks
    worker,            \* per worker thread: where it is and the item it holds
    \* durable storage
    output_file,       \* the tree sequence at output_path, or NoFile
    num_stores,        \* number of store_output calls the matcher made
    \* the checkpoint timer
    output_interval,   \* self.output_interval, in minutes
    last_output_time,  \* self.last_output_time, in seconds
    clock,             \* what time.time() returned last, in seconds since the
                       \* matcher was constructed
    \* observations of the run, read by the claims only
    obs

bufVars == <<bufs, added, lastCombined, combinedOf, appends>>
inputVars == <<num_threads, ancestors_file, sample_haplotypes, builder_call>>
matcherVars == <<tree_sequence_builder, results, match, num_matches,
                 mean_traceback_size, start_epoch, haplotypes>>
mainVars == <<pc, epoch_index, ancestor_id, node_id, epoch_results, commit_j>>
queueVars == <<match_queue, unfinished_tasks, worker>>
fileVars == <<output_file, num_stores>>
clockVars == <<output_interval, last_output_time, clock>>
pipeVars == <<inputVars, matcherVars, mainVars, queueVars, fileVars, clockVars, obs>>
vars == <<bufVars, pipeVars>>

(***************************************************************************)
(* Bounds of the model.                                                    *)
(***************************************************************************)
\* Largest chunk_size a ResultBuffer is constructed with in SpecBuf.
MaxChunk == 2
\* Largest number of records (edges and mutations) appended in a run of SpecBuf.
MaxRecs == 3
\* Largest num_threads; the Matcher holds max(1, num_threads) ResultBuffers.
MaxThreads == 2
\* Largest number of ancestors in the ancestor store (the root included).
MaxAncestors == 4
\* Largest ancestor time (the frequency of a site, plus one for the root).
MaxTime == 5
\* Largest number of sample haplotypes.
MaxSamples == 2
\* In SpecQueue, the number of work items of a batch beyond the queue's depth.
MaxBacklog == 2
\* Largest output_interval passed to match_ancestors, in minutes.
MaxInterval == 1
\* The wall clock runs to MaxClock steps of ClockStep seconds.
MaxClock == 2
\* Largest exponent of an allocatable capacity asked of a builder.
MaxCapacityExp == 3

(***************************************************************************)
(* Python and numpy helpers.                                               *)
(***************************************************************************)
\* builtin max(a, b).
Max(a, b) == IF a >= b THEN a ELSE b

\* The content of storage returned by np.empty and never written: the buffer
\* only ever reads the first num_edges / num_mutations cells, all written, so
\* the value stands for "not a record" and equals no value a caller adds.
UNINIT == -1

\* np.empty(n, dtype).
np_empty(n) == [i \in 1..n |-> UNINIT]

\* ndarray.resize(new_size): in place, the old content kept, new cells zero.
np_resize(a, new_size) == [i \in 1..new_size |-> IF i <= Len(a) THEN a[i] ELSE 0]

\* a[lo: lo + size] = vals, vals an array of length size.
np_assign(a, lo, size, vals) ==
    [i \in 1..Len(a) |-> IF i > lo /\ i <= lo + size THEN vals[i - lo] ELSE a[i]]

\* A scalar broadcast over a slice of length size (a[lo: lo + size] = scalar).
np_broadcast(v, size) == [i \in 1..size |-> v]

\* a[:n].
np_prefix(a, n) == SubSeq(a, 1, n)

\* a[::-1].
np_reverse(a) == [i \in 1..Len(a) |-> a[Len(a) + 1 - i]]

(***************************************************************************)
(* ResultBuffer.                                                           *)
(***************************************************************************)
\* ResultBuffer.__init__(chunk_size); chunk_size < 1 raises ValueError and is
\* never passed by the code (combine passes max(1, ...)).
ResultBuffer(chunk_size) ==
    [chunk_size |-> chunk_size,
     left |-> np_empty(chunk_size), right |-> np_empty(chunk_size),
     parent |-> np_empty(chunk_size), child |-> np_empty(chunk_size),
     num_edges |-> 0, max_edges |-> chunk_size,
     site |-> np_empty(chunk_size), node |-> np_empty(chunk_size),
     derived_state |-> np_empty(chunk_size),
     num_mutations |-> 0, max_mutations |-> chunk_size]

\* No buffer (a variable that holds none).
NoBuffer == [chunk_size |-> 0]

\* The read properties.
left(b) == np_prefix(b.left, b.num_edges)
right(b) == np_prefix(b.right, b.num_edges)
parent(b) == np_prefix(b.parent, b.num_edges)
child(b) == np_prefix(b.child, b.num_edges)
site(b) == np_prefix(b.site, b.num_mutations)
node(b) == np_prefix(b.node, b.num_mutations)
derived_state(b) == np_prefix(b.derived_state, b.num_mutations)

\* A clear that resets the edges only.
clear_edges_only(b) == [b EXCEPT !.num_edges = 0]

\* ResultBuffer.clear.
clear(b) == [b EXCEPT !.num_edges = 0, !.num_mutations = 0]

\* A growth that forgets the old content (a fresh np.empty instead of resize).
check_edges_size_fresh(b, additional) ==
    IF b.num_edges + additional > b.max_edges
    THEN LET new_size == b.max_edges + Max(additional, b.chunk_size)
         IN [b EXCEPT !.left = np_empty(new_size), !.right = np_empty(new_size),
                      !.parent = np_empty(new_size), !.child = np_empty(new_size),
                      !.max_edges = new_size]
    ELSE b

\* ResultBuffer.check_edges_size.
check_edges_size(b, additional) ==
    IF b.num_edges + additional > b.max_edges
    THEN LET new_size == b.max_edges + Max(additional, b.chunk_size)
         IN [b EXCEPT !.left = np_resize(b.left, new_size),
                      !.right = np_resize(b.right, new_size),
                      !.parent = np_resize(b.parent, new_size),
                      !.child = np_resize(b.child, new_size),
                      !.max_edges = new_size]
    ELSE b

\* ResultBuffer.add_edges with child an array of the same size.
add_edges(b, l, r, p, c) ==
    LET size == Len(l)
        g == check_edges_size(b, size)
    IN [g EXCEPT !.left = np_assign(g.left, g.num_edges, size, l),
                 !.right = np_assign(g.right, g.num_edges, size, r),
                 !.parent = np_assign(g.parent, g.num_edges, size, p),
                 !.child = np_assign(g.child, g.num_edges, size, c),
                 !.num_edges = g.num_edges + size]

\* ResultBuffer.add_edges with child a single value.
add_edges_scalar(b, l, r, p, c) == add_edges(b, l, r, p, np_broadcast(c, Len(l)))

\* A growth by chunk_size whatever the size of the batch.
check_mutations_size_chunk(b, additional) ==
    IF b.num_mutations + additional > b.max_mutations
    THEN LET new_size == b.max_mutations + b.chunk_size
         IN [b EXCEPT !.site = np_resize(b.site, new_size),
                      !.node = np_resize(b.node, new_size),
                      !.derived_state = np_resize(b.derived_state, new_size),
                      !.max_mutations = new_size]
    ELSE b

\* ResultBuffer.check_mutations_size.
check_mutations_size(b, additional) ==
    IF b.num_mutations + additional > b.max_mutations
    THEN LET new_size == b.max_mutations + Max(additional, b.chunk_size)
         IN [b EXCEPT !.site = np_resize(b.site, new_size),
                      !.node = np_resize(b.node, new_size),
                      !.derived_state = np_resize(b.derived_state, new_size),
                      !.max_mutations = new_size]
    ELSE b

\* ResultBuffer.add_mutations with node and derived_state arrays.
add_mutations(b, s, n, d) ==
    LET size == Len(s)
        g == check_mutations_size(b, size)
    IN [g EXCEPT !.site = np_assign(g.site, g.num_mutations, size, s),
                 !.node = np_assign(g.node, g.num_mutations, size, n),
                 !.derived_state = np_assign(g.derived_state, g.num_mutations, size, d),
                 !.num_mutations = g.num_mutations + size]

\* A default fill of 0.
add_mutations_default_zero(b, s, n) ==
    add_mutations(b, s, np_broadcast(n, Len(s)), np_broadcast(0, Len(s)))

\* ResultBuffer.add_mutations(site, node) with node a single value and
\* derived_state omitted: the fill is 1.
add_mutations_default(b, s, n) ==
    add_mutations(b, s, np_broadcast(n, Len(s)), np_broadcast(1, Len(s)))

\* ResultBuffer.add_mutations(site, node, derived_state) with node a single value.
add_mutations_scalar(b, s, n, d) == add_mutations(b, s, np_broadcast(n, Len(s)), d)

\* ResultBuffer.add_back_mutation.
add_back_mutation(b, s, n) ==
    LET g == check_mutations_size(b, 1)
    IN [g EXCEPT !.site = np_assign(g.site, g.num_mutations, 1, <<s>>),
                 !.node = np_assign(g.node, g.num_mutations, 1, <<n>>),
                 !.derived_state = np_assign(g.derived_state, g.num_mutations, 1, <<0>>),
                 !.num_mutations = g.num_mutations + 1]

\* sum(result.num_edges for result in result_buffers).
RECURSIVE sum_num_edges(_)
sum_num_edges(result_buffers) ==
    IF result_buffers = <<>> THEN 0
    ELSE Head(result_buffers).num_edges + sum_num_edges(Tail(result_buffers))

\* The loop of combine: each buffer's edges, then its mutations, in list order.
RECURSIVE combine_loop(_, _)
combine_loop(combined, result_buffers) ==
    IF result_buffers = <<>> THEN combined
    ELSE LET result == Head(result_buffers)
             e == add_edges(combined, left(result), right(result),
                            parent(result), child(result))
             m == add_mutations(e, site(result), node(result), derived_state(result))
         IN combine_loop(m, Tail(result_buffers))

\* A combine that skips the first buffer of the list.
combine_skip_first(result_buffers) ==
    combine_loop(ResultBuffer(Max(1, sum_num_edges(result_buffers))),
                 IF result_buffers = <<>> THEN <<>> ELSE Tail(result_buffers))

\* ResultBuffer.combine.
combine(result_buffers) ==
    combine_loop(ResultBuffer(Max(1, sum_num_edges(result_buffers))), result_buffers)

(***************************************************************************)
(* Inputs: the ancestor store and the samples.                             *)
(***************************************************************************)
UNKNOWN_ALLELE == 255

\* a[i] for a Python index i.
At(a, i) == a[i + 1]

\* The time arrays build_ancestors writes: the root at descriptors[0].freq + 1,
\* then the descriptors' frequencies, non-increasing; a frequency is at least 2.
TimeArrays ==
    UNION {{t \in [1..n -> 2..MaxTime] :
               /\ t[1] = t[2] + 1
               /\ \A i \in 2..(n - 1) : t[i] >= t[i + 1]} : n \in 2..MaxAncestors}

\* The ancestor store for a time array t of n ancestors. There are n sites:
\* site a - 1 is the focal site of ancestor a >= 1 and the last site is focal
\* for no ancestor. Ancestor a carries the derived allele at its focal site and
\* at the focal sites of some older ancestors; odd ancestors end before the last
\* site and are unknown there. Ancestor 0 is the root, all zero.
AncestorFile(t) ==
    LET n == Len(t)
        end_of(a) == IF a % 2 = 1 THEN n - 1 ELSE n
    IN [num_ancestors |-> n,
        num_sites |-> n,
        time |-> t,
        focal_sites |-> [k \in 1..n |-> IF k = 1 THEN <<>> ELSE <<k - 2>>],
        start |-> [k \in 1..n |-> 0],
        end |-> [k \in 1..n |-> end_of(k - 1)],
        haplotype |->
            [k \in 1..n |->
                [i \in 1..n |->
                    LET a == k - 1
                        s == i - 1
                    IN IF s >= end_of(a) THEN UNKNOWN_ALLELE
                       ELSE IF a = 0 THEN 0
                       ELSE IF s = a - 1 THEN 1
                       ELSE IF s < n - 1 /\ t[s + 2] > t[k] /\ (a + s) % 2 = 0 THEN 1
                       ELSE 0]]]

AncestorFiles == {AncestorFile(t) : t \in TimeArrays}

\* The sample haplotypes of the input file over n sites: sample k carries the
\* derived allele at the sites s with s + k even.
SampleHaplotypes(num_samples, n) ==
    [k \in 1..num_samples |-> [i \in 1..n |-> IF (i + k) % 2 = 0 THEN 1 ELSE 0]]

(***************************************************************************)
(* The tree sequence builder and the per-thread matcher (external          *)
(* collaborators: _tsinfer / tsinfer.algorithm).                           *)
(***************************************************************************)
\* TreeSequenceBuilder(...): no node, edge or mutation. Node ids are the
\* indexes of time; an edge is <<left, right, parent, child>>; a mutation is
\* <<site, node, derived_state>>.
TreeSequenceBuilder == [time |-> <<>>, edges |-> <<>>, mutations |-> <<>>]

\* sys.platform of the process.
Platforms == {"linux", "darwin", "win32"}

\* The capacities a builder is asked for are powers of two, kept as their
\* exponents: 2^62 is 62.
TooBigExp == 62
CapacityExps == 0..MaxCapacityExp \cup {TooBigExp}

\* 2^k nodes or edges cannot be allocated.
Unallocatable(k) == k >= TooBigExp

\* No direct call of the constructor was made.
NoBuilderCall ==
    [platform |-> "linux", max_nodes |-> 0, max_edges |-> 0, outcome |-> "not_called"]

\* _tsinfer.TreeSequenceBuilder(num_sites=1, max_nodes=2^n, max_edges=2^e):
\* the outcomes the platform can produce. Off Windows an unallocatable
\* capacity raises MemoryError; Windows allows the initialisation with 2^62
\* nodes and fails an assertion of object_heap.c with 2^62 edges.
TreeSequenceBuilder_new(platform, n, e) ==
    IF ~Unallocatable(n) /\ ~Unallocatable(e) THEN {"built"}
    ELSE IF platform # "win32" THEN {"MemoryError"}
    ELSE (IF Unallocatable(n) THEN {"built"} ELSE {})
         \cup (IF Unallocatable(e) THEN {"AssertionError"} ELSE {})

tsb_num_nodes(tsb) == Len(tsb.time)

\* add_node(time) -> node_id: the next sequential id.
tsb_add_node(tsb, time) == [tsb EXCEPT !.time = Append(@, time)]

\* add_path(child, left[], right[], parent[]): the edges of one child.
tsb_add_path(tsb, c, l, r, p) ==
    [tsb EXCEPT !.edges = @ \o [i \in 1..Len(l) |-> <<l[i], r[i], p[i], c>>]]

\* add_mutations(site[], node[], derived_state[]).
tsb_add_mutations(tsb, s, n, d) ==
    [tsb EXCEPT !.mutations = @ \o [i \in 1..Len(s) |-> <<s[i], n[i], d[i]>>]]

\* The node the matcher copies from at site s: the node of the first mutation
\* to the derived state at s when the haplotype is derived there, else the root.
CopyParent(tsb, h, s) ==
    LET hits == {i \in 1..Len(tsb.mutations) :
                    tsb.mutations[i][1] = s /\ tsb.mutations[i][3] = 1}
    IN IF At(h, s) = 1 /\ hits # {}
       THEN tsb.mutations[CHOOSE i \in hits : \A k \in hits : i <= k][2]
       ELSE 0

\* The allele of the copied node at site s.
CopyAllele(tsb, h, s) ==
    IF At(h, s) = 1 /\ \E i \in 1..Len(tsb.mutations) :
                          tsb.mutations[i][1] = s /\ tsb.mutations[i][3] = 1
    THEN 1 ELSE 0

\* The copying path over [start, pos), from the right end to the left end: one
\* <<left, right, parent>> per maximal run of sites copied from one node.
RECURSIVE CopyPath(_, _, _, _)
CopyPath(tsb, h, start, pos) ==
    IF pos <= start THEN <<>>
    ELSE LET p == CopyParent(tsb, h, pos - 1)
             l == CHOOSE x \in start..(pos - 1) :
                      /\ \A y \in x..(pos - 1) : CopyParent(tsb, h, y) = p
                      /\ \A z \in start..(x - 1) :
                             \E y \in z..(pos - 1) : CopyParent(tsb, h, y) # p
         IN <<<<l, pos, p>>>> \o CopyPath(tsb, h, start, l)

\* The columns of a copying path.
PathColumns(path, match_array) ==
    [left |-> [i \in 1..Len(path) |-> path[i][1]],
     right |-> [i \in 1..Len(path) |-> path[i][2]],
     parent |-> [i \in 1..Len(path) |-> path[i][3]],
     match |-> match_array]

\* matcher.find_path(haplotype, start, end, match) -> (left, right, parent),
\* and the copy it found written to match.
find_path(tsb, h, start, end) ==
    PathColumns(CopyPath(tsb, h, start, end),
                [i \in 1..Len(h) |->
                    IF i - 1 >= start /\ i - 1 < end
                    THEN CopyAllele(tsb, h, i - 1) ELSE UNKNOWN_ALLELE])

(***************************************************************************)
(* Matcher: the base class.                                                *)
(***************************************************************************)
\* The default chunk_size of the ResultBuffers allocated by Matcher.__init__
\* (1024 in the source), scaled down to MaxChunk.
DefaultChunk == MaxChunk

\* max(1, self.num_threads): the number of matchers, buffers and statistics.
NumSlots(threads) == Max(1, threads)

\* Matcher._find_path after matcher.find_path returned found: the edges added
\* to the thread's buffer and the match counted.
_find_path_found(found, res, count, child_id) ==
    [results |-> add_edges_scalar(res, found.left, found.right, found.parent,
                                  child_id),
     match |-> found.match,
     num_matches |-> count + 1,
     path |-> [i \in 1..Len(found.left) |->
                 <<found.left[i], found.right[i], found.parent[i]>>]]

\* Matcher._find_path for one thread: the thread's buffer, scratch array and
\* match count after the call, and the path found.
_find_path(tsb, res, count, child_id, haplotype, start, end) ==
    _find_path_found(find_path(tsb, haplotype, start, end), res, count, child_id)

\* ord('0').
ORD_ZERO == 48

\* An int8 value after an addition (numpy wraps).
Int8(x) == ((x + 128) % 256) - 128

\* msprime.sort_tables on the edges: by time of the parent, parent, child, left.
EdgeBefore(time, e, f) ==
    LET ke == <<At(time, e[3]), e[3], e[4], e[1]>>
        kf == <<At(time, f[3]), f[3], f[4], f[1]>>
    IN \E i \in 1..4 : ke[i] < kf[i] /\ \A k \in 1..(i - 1) : ke[k] = kf[k]

RECURSIVE InsertEdge(_, _, _)
InsertEdge(time, sorted, e) ==
    IF sorted = <<>> THEN <<e>>
    ELSE IF EdgeBefore(time, e, Head(sorted)) THEN <<e>> \o sorted
    ELSE <<Head(sorted)>> \o InsertEdge(time, Tail(sorted), e)

RECURSIVE SortEdges(_, _)
SortEdges(time, edges) ==
    IF edges = <<>> THEN <<>>
    ELSE InsertEdge(time, SortEdges(time, SubSeq(edges, 1, Len(edges) - 1)),
                    edges[Len(edges)])

\* msprime.sort_tables on the mutations: by site, the order within a site kept.
RECURSIVE InsertMutation(_, _)
InsertMutation(sorted, m) ==
    IF sorted = <<>> THEN <<m>>
    ELSE IF m[1] < sorted[Len(sorted)][1]
         THEN InsertMutation(SubSeq(sorted, 1, Len(sorted) - 1), m)
              \o <<sorted[Len(sorted)]>>
    ELSE sorted \o <<m>>

RECURSIVE SortMutations(_)
SortMutations(mutations) ==
    IF mutations = <<>> THEN <<>>
    ELSE InsertMutation(SortMutations(SubSeq(mutations, 1, Len(mutations) - 1)),
                        mutations[Len(mutations)])

\* Matcher.get_tree_sequence(rescale_positions=False): the tables of the
\* builder, the derived states as characters, sorted. Every node is flagged as
\* a sample, so num_samples of the tree sequence is its number of nodes.
get_tree_sequence(tsb) ==
    [time |-> tsb.time,
     edges |-> SortEdges(tsb.time, tsb.edges),
     mutations |-> SortMutations(
         [i \in 1..Len(tsb.mutations) |->
             <<tsb.mutations[i][1], tsb.mutations[i][2],
               Int8(tsb.mutations[i][3] + ORD_ZERO)>>]),
     num_samples |-> Len(tsb.time),
     num_sites |-> ancestors_file.num_sites]

\* Matcher.restore_tree_sequence_builder: the nodes, edges and mutations of a
\* tree sequence, the derived states decoded from characters.
restore_tree_sequence_builder(ts) ==
    [time |-> ts.time,
     edges |-> ts.edges,
     mutations |-> [i \in 1..Len(ts.mutations) |->
                       <<ts.mutations[i][1], ts.mutations[i][2],
                         Int8(ts.mutations[i][3] - ORD_ZERO)>>]]

(***************************************************************************)
(* AncestorMatcher.                                                        *)
(***************************************************************************)
\* np.where(self.epoch[1:] != self.epoch[:-1])[0].
RECURSIVE breaks(_)
breaks(epoch) ==
    IF Len(epoch) < 2 THEN <<>>
    ELSE breaks(SubSeq(epoch, 1, Len(epoch) - 1))
         \o (IF epoch[Len(epoch)] # epoch[Len(epoch) - 1]
             THEN <<Len(epoch) - 2>> ELSE <<>>)

\* Ranges that end at the break instead of after it.
epoch_slices_closed(af) ==
    LET b == breaks(af.time)
        start == <<0>> \o [i \in 1..Len(b) |-> b[i] + 1]
        end == b \o <<af.num_ancestors>>
    IN [i \in 1..Len(start) |-> <<start[i], end[i]>>]

\* self.epoch_slices: the rows <<start, end>> of np.vstack([start, end]).T.
epoch_slices(af) ==
    LET b == breaks(af.time)
        start == <<0>> \o [i \in 1..Len(b) |-> b[i] + 1]
        end == [i \in 1..Len(b) |-> b[i] + 1] \o <<af.num_ancestors>>
    IN [i \in 1..Len(start) |-> <<start[i], end[i]>>]

num_epochs(af) == Len(epoch_slices(af))

\* a[i] for a Python index i that may be negative.
PyAt(a, i) == IF i < 0 THEN a[Len(a) + i + 1] ELSE a[i + 1]

\* Whether a[i] raises IndexError.
IndexError(a, i) == i >= Len(a) \/ i < -Len(a)

\* haplotype[focal_sites] = 0.
reset_focal(haplotype, focal) ==
    [i \in 1..Len(haplotype) |->
        IF \E k \in 1..Len(focal) : focal[k] = i - 1 THEN 0 ELSE haplotype[i]]

\* The assertions of __ancestor_find_path before the match.
ancestor_asserts(haplotype, focal, start, end) ==
    /\ \A x \in 0..(start - 1) : At(haplotype, x) = UNKNOWN_ALLELE
    /\ \A x \in end..(Len(haplotype) - 1) : At(haplotype, x) = UNKNOWN_ALLELE
    /\ \A k \in 1..Len(focal) : At(haplotype, focal[k]) = 1

\* __ancestor_find_path once _find_path returned found: the focal sites of
\* the haplotype reset and the last assertion.
ancestor_found(found, after) ==
    [raised |-> found.match # after, results |-> found.results,
     match |-> found.match, num_matches |-> found.num_matches,
     haplotype |-> after, path |-> found.path]

\* __ancestor_find_path with the focal sites and the span of the ancestor
\* looked up, r1 the thread's buffer with the mutations added.
ancestor_find_path_at(tsb, r1, count, nid, haplotype, focal, start, end) ==
    IF ~ancestor_asserts(haplotype, focal, start, end)
    THEN [raised |-> TRUE, results |-> r1, match |-> haplotype,
          num_matches |-> count, haplotype |-> haplotype, path |-> <<>>]
    ELSE ancestor_found(_find_path(tsb, r1, count, nid, haplotype, start, end),
                        reset_focal(haplotype, focal))

\* AncestorMatcher.__ancestor_find_path for one thread: what the thread's
\* buffer, scratch array and match count become, the path found, and whether
\* one of the assertions failed.
ancestor_find_path(af, tsb, res, count, anc, nid, haplotype) ==
    ancestor_find_path_at(tsb, add_mutations_default(res, At(af.focal_sites, anc), nid),
                          count, nid, haplotype, At(af.focal_sites, anc),
                          At(af.start, anc), At(af.end, anc))

\* np.zeros(n).
np_zeros(n) == [i \in 1..n |-> 0]

\* An iterator that starts at the root.
first_ancestor_root(resume, ts) == 0

\* first_ancestor: 1, the root being inserted by __init__ itself, or on
\* resume the number of nodes of the checkpoint.
first_ancestor(resume, ts) == IF resume THEN ts.num_samples ELSE 1

\* The fields Matcher.__init__ and AncestorMatcher.__init__ set, for a fresh run
\* (resume = FALSE) or a run resumed from the tree sequence ts at output_path.
\* raised: the constructor raises IndexError (self.epoch[first_ancestor], or
\* self.epoch_slices[self.start_epoch - 1] for the progress monitor).
AncestorMatcher(af, threads, resume, ts) ==
    LET first == first_ancestor(resume, ts)
        bad_first == resume /\ IndexError(af.time, first)
        start == IF resume /\ ~bad_first
                 THEN num_epochs(af) - PyAt(af.time, first) + 1
                 ELSE 1
    IN [tree_sequence_builder |->
            IF resume THEN restore_tree_sequence_builder(ts)
            ELSE tsb_add_node(TreeSequenceBuilder, At(af.time, 0)),
        results |-> [i \in 1..NumSlots(threads) |-> ResultBuffer(DefaultChunk)],
        match |-> [i \in 1..NumSlots(threads) |-> np_zeros(af.num_sites)],
        num_matches |-> [i \in 1..NumSlots(threads) |-> 0],
        mean_traceback_size |-> [i \in 1..NumSlots(threads) |-> 0],
        start_epoch |-> start,
        haplotypes |-> first,
        raised |-> bad_first \/ IndexError(epoch_slices(af), start - 1)]

\* The work items of the queue; the sentinel is None.
WorkItem(anc, nid, a) == [kind |-> "ancestor", ancestor_id |-> anc, node_id |-> nid, a |-> a]
SampleItem(sid, a) == [kind |-> "sample", ancestor_id |-> 0, node_id |-> sid, a |-> a]
None == [kind |-> "None", ancestor_id |-> 0, node_id |-> 0, a |-> <<>>]

NoFile == [num_samples |-> 0, num_sites |-> 0, time |-> <<>>, edges |-> <<>>,
           mutations |-> <<>>]

\* queue_depth = 8 * self.num_threads.
QueueFactor == 8

\* A queue twice as deep.
queue_depth_doubled == 2 * QueueFactor * num_threads

queue_depth == QueueFactor * num_threads

\* The observations of a run: every dispatch <<epoch, node id>> and every
\* add_node <<epoch, node id>>, every add_path call with its edges, the epochs
\* add_mutations was called for, how often each dispatched node id was taken
\* from the queue, what each finished match found, which run this is and the
\* builder an earlier run over the same input ended with.
NoObs == [dispatch_log |-> <<>>, add_node_log |-> <<>>, path_calls |-> <<>>,
          mutations_log |-> <<>>, taken |-> <<>>, finished |-> <<>>,
          run |-> "first", baseline |-> TreeSequenceBuilder]

\* output_interval=None, the default of match_ancestors.
NoInterval == [given |-> FALSE, minutes |-> 0]

\* The output_interval arguments: None, or a number of minutes.
OutputIntervals ==
    {NoInterval} \cup {[given |-> TRUE, minutes |-> k] : k \in 0..MaxInterval}

\* 2**32, the "Arbitrary very large number of minutes". The integers of the
\* model checker end at 2^31 - 1, so the model writes 2^30: like 2**32 it is
\* more minutes than any wall clock of the model can show.
VeryLargeInterval == 2^30

\* self.output_interval: 2**32, or the argument if it is not None.
OutputInterval(arg) == IF arg.given THEN arg.minutes ELSE VeryLargeInterval

\* The seconds between two readings of the wall clock in the model.
ClockStep == 30

\* time.time() when the wall clock stands at c.
time_time(c) == c

\* The values a later reading of the wall clock can return.
LaterTimes == {now \in {ClockStep * k : k \in 0..MaxClock} : now >= clock}

\* A comparison of the seconds elapsed with the interval in minutes.
interval_elapsed_minutes(now, last, interval) == now - last >= interval

\* delta.total_seconds() >= self.output_interval * 60 for
\* delta = timedelta(seconds=time.time() - self.last_output_time).
\* The wall clock is in whole seconds, for which delta >= interval * 60 is
\* delta \div 60 >= interval; the product is not formed, it would leave the
\* integers of the model checker for the very large interval.
interval_elapsed(now, last, interval) == (now - last) \div 60 >= interval

\* The state of the variables of the pipeline while it is not running.
PipeIdle ==
    /\ num_threads = 0
    /\ ancestors_file = AncestorFile(<<3, 2>>)
    /\ sample_haplotypes = <<>>
    /\ tree_sequence_builder = TreeSequenceBuilder
    /\ results = <<>> /\ match = <<>> /\ num_matches = <<>>
    /\ mean_traceback_size = <<>>
    /\ start_epoch = 1 /\ haplotypes = 1
    /\ pc = "idle" /\ epoch_index = 0 /\ ancestor_id = 0 /\ node_id = 0
    /\ epoch_results = NoBuffer /\ commit_j = 0
    /\ match_queue = <<>> /\ unfinished_tasks = 0 /\ worker = <<>>
    /\ output_file = NoFile /\ num_stores = 0
    /\ output_interval = OutputInterval(NoInterval)
    /\ last_output_time = 0 /\ clock = 0
    /\ obs = NoObs

\* The state after AncestorMatcher(input_file, ancestors_file, output_path,
\* num_threads=threads) returns, match_ancestors about to be called.
\* files: the ancestor stores, counts: the numbers of samples to draw from.
AncStartFor(files, counts) ==
    /\ num_threads \in 0..MaxThreads
    /\ ancestors_file \in files
    /\ builder_call = NoBuilderCall
    /\ \E k \in counts :
          sample_haplotypes = SampleHaplotypes(k, ancestors_file.num_sites)
    /\ LET m == AncestorMatcher(ancestors_file, num_threads, FALSE, NoFile)
       IN /\ tree_sequence_builder = m.tree_sequence_builder
          /\ results = m.results /\ match = m.match /\ num_matches = m.num_matches
          /\ mean_traceback_size = m.mean_traceback_size
          /\ start_epoch = m.start_epoch /\ haplotypes = m.haplotypes
    /\ pc = "match_ancestors" /\ epoch_index = 0 /\ ancestor_id = 0 /\ node_id = 0
    /\ epoch_results = NoBuffer /\ commit_j = 0
    /\ match_queue = <<>> /\ unfinished_tasks = 0 /\ worker = <<>>
    /\ output_file = NoFile /\ num_stores = 0
    /\ output_interval \in {OutputInterval(arg) : arg \in OutputIntervals}
    /\ clock = 0 /\ last_output_time = time_time(clock)
    /\ obs = [NoObs EXCEPT !.add_node_log = <<<<0, 0>>>>]
    /\ bufs = <<>> /\ added = <<>> /\ lastCombined = NoBuffer
    /\ combinedOf = 0 /\ appends = 0

AncStart(files) == AncStartFor(files, 1..MaxSamples)

AncInit == AncStart(AncestorFiles)

(***************************************************************************)
(* SpecBuf: ResultBuffer objects driven by arbitrary calls.                *)
(***************************************************************************)
\* The rows a buffer reads back.
EdgeRows(b) ==
    [i \in 1..b.num_edges |-> <<left(b)[i], right(b)[i], parent(b)[i], child(b)[i]>>]
MutationRows(b) ==
    [i \in 1..b.num_mutations |-> <<site(b)[i], node(b)[i], derived_state(b)[i]>>]

RECURSIVE TotalEdges(_)
TotalEdges(bs) == IF bs = <<>> THEN 0 ELSE Head(bs).num_edges + TotalEdges(Tail(bs))
RECURSIVE TotalMutations(_)
TotalMutations(bs) ==
    IF bs = <<>> THEN 0 ELSE Head(bs).num_mutations + TotalMutations(Tail(bs))

\* Values the calls of SpecBuf pass: the left of an edge or the site of a
\* mutation is the position the record takes in its buffer and the child or
\* node is BufNode(i), which tells the buffer and how often it was cleared, so
\* that no two records a combined buffer reads back are equal and no record
\* equals one from before a clear; right = left + 1, parent = left + 2, and
\* the derived states alternate.
EdgePositions(i, n) == [k \in 1..n |-> bufs[i].num_edges + k - 1]
MutationPositions(i, n) == [k \in 1..n |-> bufs[i].num_mutations + k - 1]
BufStates(i, n) == [k \in 1..n |-> (bufs[i].num_mutations + k) % 2]
\* self.results holds one buffer per thread.
NumBufs == MaxThreads
BufNode(i) == i + NumBufs * added[i].clears

BufInit ==
    /\ \E c \in 1..MaxChunk : bufs = [i \in 1..NumBufs |-> ResultBuffer(c)]
    /\ added = [i \in 1..NumBufs |-> [edges |-> <<>>, mutations |-> <<>>, clears |-> 0]]
    /\ lastCombined = NoBuffer
    /\ combinedOf = 0
    /\ appends = 0
    /\ PipeIdle
    /\ builder_call = NoBuilderCall

\* results.add_edges(left, right, parent, child_id), child a single value.
BufAddEdges(i, l) ==
    LET r == [k \in 1..Len(l) |-> l[k] + 1]
        p == [k \in 1..Len(l) |-> l[k] + 2]
    IN /\ appends + Len(l) <= MaxRecs /\ appends' = appends + Len(l)
       /\ bufs' = [bufs EXCEPT ![i] = add_edges_scalar(@, l, r, p, BufNode(i))]
       /\ added' = [added EXCEPT ![i].edges =
                        @ \o [k \in 1..Len(l) |-> <<l[k], r[k], p[k], BufNode(i)>>]]
       /\ lastCombined' = NoBuffer /\ combinedOf' = 0
       /\ UNCHANGED pipeVars

\* results.add_mutations(site, node): derived_state omitted.
BufAddMutations(i, s) ==
    /\ appends + Len(s) <= MaxRecs /\ appends' = appends + Len(s)
    /\ bufs' = [bufs EXCEPT ![i] = add_mutations_default(@, s, BufNode(i))]
    /\ added' = [added EXCEPT ![i].mutations =
                     @ \o [k \in 1..Len(s) |-> <<s[k], BufNode(i), 1>>]]
    /\ lastCombined' = NoBuffer /\ combinedOf' = 0
    /\ UNCHANGED pipeVars

\* results.add_mutations(site, node, derived_state).
BufAddMutationsStates(i, s, d) ==
    /\ Len(s) = Len(d)
    /\ appends + Len(s) <= MaxRecs /\ appends' = appends + Len(s)
    /\ bufs' = [bufs EXCEPT ![i] = add_mutations_scalar(@, s, BufNode(i), d)]
    /\ added' = [added EXCEPT ![i].mutations =
                     @ \o [k \in 1..Len(s) |-> <<s[k], BufNode(i), d[k]>>]]
    /\ lastCombined' = NoBuffer /\ combinedOf' = 0
    /\ UNCHANGED pipeVars

\* results.add_back_mutation(site, node).
BufAddBackMutation(i, s) ==
    /\ appends + 1 <= MaxRecs /\ appends' = appends + 1
    /\ bufs' = [bufs EXCEPT ![i] = add_back_mutation(@, s, BufNode(i))]
    /\ added' = [added EXCEPT ![i].mutations = Append(@, <<s, BufNode(i), 0>>)]
    /\ lastCombined' = NoBuffer /\ combinedOf' = 0
    /\ UNCHANGED pipeVars

\* results.clear().
BufClear(i) ==
    /\ bufs[i].num_edges + bufs[i].num_mutations > 0
    /\ bufs' = [bufs EXCEPT ![i] = clear(@)]
    /\ added' = [added EXCEPT ![i] = [edges |-> <<>>, mutations |-> <<>>,
                                       clears |-> @.clears + 1]]
    /\ lastCombined' = NoBuffer /\ combinedOf' = 0
    /\ UNCHANGED pipeVars
    /\ UNCHANGED appends

\* ResultBuffer.combine(the first k buffers of the list).
BufCombine(k) ==
    /\ lastCombined = NoBuffer
    /\ lastCombined' = combine(SubSeq(bufs, 1, k))
    /\ combinedOf' = k
    /\ UNCHANGED <<bufs, added, appends, pipeVars>>

BufNext ==
    \/ \E i \in 1..NumBufs, n \in 0..(MaxRecs - appends) : BufAddEdges(i, EdgePositions(i, n))
    \/ \E i \in 1..NumBufs, n \in 0..(MaxRecs - appends) :
          BufAddMutations(i, MutationPositions(i, n))
    \/ \E i \in 1..NumBufs, n \in 0..(MaxRecs - appends) :
          BufAddMutationsStates(i, MutationPositions(i, n), BufStates(i, n))
    \/ \E i \in 1..NumBufs : BufAddBackMutation(i, bufs[i].num_mutations)
    \/ \E i \in 1..NumBufs : BufClear(i)
    \/ \E k \in 0..NumBufs : BufCombine(k)

SpecBuf == BufInit /\ [][BufNext]_vars

(***************************************************************************)
(* SpecEpochs: the epoch ranges of AncestorMatcher.__init__ for any time   *)
(* array, read row by row as the epoch loops read them.                    *)
(***************************************************************************)
\* Any array of 1..MaxAncestors times: build_ancestors writes at least the
\* root, and __init__ itself asks nothing of the order of the times.
AnyTimeArrays == UNION {[1..n -> 1..MaxTime] : n \in 1..MaxAncestors}

EpochsInit ==
    /\ ancestors_file \in {AncestorFile(t) : t \in AnyTimeArrays}
    /\ num_threads = 0 /\ sample_haplotypes = <<>>
    /\ builder_call = NoBuilderCall
    /\ tree_sequence_builder = TreeSequenceBuilder
    /\ results = <<>> /\ match = <<>> /\ num_matches = <<>>
    /\ mean_traceback_size = <<>>
    /\ start_epoch = 1 /\ haplotypes = 1
    /\ pc = "epochs" /\ epoch_index = 0 /\ ancestor_id = 0 /\ node_id = 0
    /\ epoch_results = NoBuffer /\ commit_j = 0
    /\ match_queue = <<>> /\ unfinished_tasks = 0 /\ worker = <<>>
    /\ output_file = NoFile /\ num_stores = 0
    /\ output_interval = OutputInterval(NoInterval)
    /\ last_output_time = 0 /\ clock = 0
    /\ obs = NoObs
    /\ bufs = <<>> /\ added = <<>> /\ lastCombined = NoBuffer
    /\ combinedOf = 0 /\ appends = 0

\* start, end = map(int, self.epoch_slices[j]) for the next row j: the start
\* is kept in ancestor_id and the end in node_id.
ReadSlice ==
    /\ pc = "epochs" /\ epoch_index < num_epochs(ancestors_file)
    /\ ancestor_id' = At(epoch_slices(ancestors_file), epoch_index)[1]
    /\ node_id' = At(epoch_slices(ancestors_file), epoch_index)[2]
    /\ epoch_index' = epoch_index + 1
    /\ UNCHANGED <<bufVars, inputVars, matcherVars, pc, epoch_results, commit_j,
                   queueVars, fileVars, clockVars, obs>>

SpecEpochs == EpochsInit /\ [][ReadSlice]_vars

\* C13: the epoch ranges are non-empty half-open ranges, the first starts at
\* 0, each starts where the one before ends, the last ends at num_ancestors;
\* the ancestors of one range have one time and the first ancestors of
\* adjacent ranges have different times; and the row the loop read last, if
\* any, is the range before the next.
C13_EpochRangesPartition ==
    LET sl == epoch_slices(ancestors_file)
        t == ancestors_file.time
    IN /\ Len(sl) >= 1
       /\ sl[1][1] = 0 /\ sl[Len(sl)][2] = ancestors_file.num_ancestors
       /\ \A i \in 1..Len(sl) :
              /\ sl[i][1] < sl[i][2]
              /\ \A a \in sl[i][1]..(sl[i][2] - 1) : At(t, a) = At(t, sl[i][1])
       /\ \A i \in 1..(Len(sl) - 1) :
              /\ sl[i + 1][1] = sl[i][2]
              /\ At(t, sl[i][1]) # At(t, sl[i + 1][1])
       /\ (pc = "epochs" /\ epoch_index > 0) =>
              /\ <<ancestor_id, node_id>> = sl[epoch_index]
              /\ ancestor_id < node_id /\ node_id <= ancestors_file.num_ancestors

\* All rows read of a time array that has a range of two ancestors between
\* two other ranges.
C13_Witness ==
    /\ pc = "epochs" /\ epoch_index = num_epochs(ancestors_file)
    /\ num_epochs(ancestors_file) >= 3
    /\ \E i \in 2..(num_epochs(ancestors_file) - 1) :
           epoch_slices(ancestors_file)[i][2] - epoch_slices(ancestors_file)[i][1] = 2

(***************************************************************************)
(* Claims about ResultBuffer.                                              *)
(***************************************************************************)
RECURSIVE ConcatEdges(_)
ConcatEdges(as) == IF as = <<>> THEN <<>> ELSE Head(as).edges \o ConcatEdges(Tail(as))
RECURSIVE ConcatMutations(_)
ConcatMutations(as) ==
    IF as = <<>> THEN <<>> ELSE Head(as).mutations \o ConcatMutations(Tail(as))

\* C9: combine of k buffers returns a buffer whose edge (mutation) count is the
\* sum of the inputs' counts and whose rows are the inputs' rows, each input
\* contiguous and in its own order, the inputs in list order; the inputs still
\* read back what was added to them.
C9_CombineConcatenates ==
    lastCombined # NoBuffer =>
        LET ins == SubSeq(bufs, 1, combinedOf)
            was == SubSeq(added, 1, combinedOf)
        IN /\ lastCombined.num_edges = TotalEdges(ins)
           /\ lastCombined.num_mutations = TotalMutations(ins)
           /\ EdgeRows(lastCombined) = ConcatEdges(was)
           /\ MutationRows(lastCombined) = ConcatMutations(was)
           /\ \A i \in 1..combinedOf :
                  /\ EdgeRows(bufs[i]) = added[i].edges
                  /\ MutationRows(bufs[i]) = added[i].mutations

\* A combine of two buffers that both hold an edge, one of them a mutation too.
C9_Witness ==
    /\ lastCombined # NoBuffer /\ combinedOf = 2
    /\ \A i \in 1..2 : bufs[i].num_edges >= 1
    /\ lastCombined.num_edges >= 2 /\ lastCombined.num_mutations >= 1

\* C10: a buffer reads back exactly the records added since its last clear,
\* in the order they were added, whatever growth happened in between.
C10_RoundTrip ==
    \A i \in 1..NumBufs :
        /\ EdgeRows(bufs[i]) = added[i].edges
        /\ MutationRows(bufs[i]) = added[i].mutations

\* A buffer whose edge area grew past the constructed capacity while it held
\* an edge, and that holds a mutation too.
C10_Witness ==
    \E i \in 1..NumBufs :
        /\ bufs[i].max_edges > bufs[i].chunk_size
        /\ bufs[i].num_edges >= 2 /\ bufs[i].num_mutations >= 1
        /\ Len(added[i].edges) = bufs[i].num_edges

\* The capacity after an append took a count from num to num2, the capacity
\* being max before it: grown by max(n, chunk_size) when the batch of n did not
\* fit, else the same.
GrownCapacity(num, max, num2, chunk_size) ==
    IF num2 > max THEN max + Max(num2 - num, chunk_size) ELSE max

\* The counts of a buffer are within its capacities, and the capacities are
\* the sizes of the backing arrays.
WithinCapacity(b) ==
    /\ b.num_edges <= b.max_edges /\ b.num_mutations <= b.max_mutations
    /\ Len(b.left) = b.max_edges /\ Len(b.right) = b.max_edges
    /\ Len(b.parent) = b.max_edges /\ Len(b.child) = b.max_edges
    /\ Len(b.site) = b.max_mutations /\ Len(b.node) = b.max_mutations
    /\ Len(b.derived_state) = b.max_mutations

\* What one call may do to the capacities of a buffer, b before and c after.
CapacityStep(b, c) ==
    /\ WithinCapacity(c)
    /\ c.max_edges >= b.max_edges /\ c.max_mutations >= b.max_mutations
    /\ c.max_edges = IF c.num_edges >= b.num_edges
                     THEN GrownCapacity(b.num_edges, b.max_edges, c.num_edges,
                                        b.chunk_size)
                     ELSE b.max_edges
    /\ c.max_mutations = IF c.num_mutations >= b.num_mutations
                         THEN GrownCapacity(b.num_mutations, b.max_mutations,
                                            c.num_mutations, b.chunk_size)
                         ELSE b.max_mutations

\* C11: every call on a buffer leaves its counts within its capacities; a
\* capacity grows by max(n, chunk_size) exactly when an append of n records
\* does not fit and never shrinks; a combine, which reads every column of its
\* inputs, changes no input, and the buffer it returns is within capacity.
C11_CapacityPolicy ==
    [][/\ \A i \in DOMAIN bufs : CapacityStep(bufs[i], bufs'[i])
       /\ lastCombined' # NoBuffer =>
              /\ WithinCapacity(lastCombined')
              /\ lastCombined' # lastCombined => bufs' = bufs]_vars

\* A buffer of chunk size 1 that took three mutations in one call, so that its
\* capacity grew by the size of the batch, and that reads all three back.
C11_Witness ==
    \E i \in 1..NumBufs :
        /\ bufs[i].chunk_size = 1 /\ bufs[i].max_mutations = 4
        /\ bufs[i].num_mutations = 3 /\ Len(added[i].mutations) = 3

\* What clear does to a buffer, b before and c after: the counts are zero, the
\* capacities, the chunk size and the backing arrays are the same, and every
\* column reads back as empty.
Cleared(b, c) ==
    /\ c.num_edges = 0 /\ c.num_mutations = 0
    /\ c.max_edges = b.max_edges /\ c.max_mutations = b.max_mutations
    /\ c.chunk_size = b.chunk_size
    /\ Len(c.left) = Len(b.left) /\ Len(c.site) = Len(b.site)
    /\ left(c) = <<>> /\ right(c) = <<>> /\ parent(c) = <<>> /\ child(c) = <<>>
    /\ site(c) = <<>> /\ node(c) = <<>> /\ derived_state(c) = <<>>

\* Every record buffer i reads back was added after its last clear.
OnlySinceClear(b, i, clears) ==
    /\ b.num_edges = Len(added[i].edges) /\ b.num_mutations = Len(added[i].mutations)
    /\ \A k \in 1..b.num_edges : child(b)[k] = i + NumBufs * clears
    /\ \A k \in 1..b.num_mutations : node(b)[k] = i + NumBufs * clears

\* C12: a clear zeroes both counts and keeps the capacities, the chunk size
\* and the storage, the cleared buffer reads back as empty, and in every
\* state a buffer reads back only records added after its last clear.
C12_ClearKeepsCapacity ==
    /\ [](\A i \in DOMAIN bufs : OnlySinceClear(bufs[i], i, added[i].clears))
    /\ [][\A i \in DOMAIN bufs :
              added'[i].clears # added[i].clears => Cleared(bufs[i], bufs'[i])]_vars

\* A buffer that was cleared while it held two edges and took one edge since:
\* the storage still holds the second edge of before the clear.
C12_Witness ==
    \E i \in 1..NumBufs :
        /\ added[i].clears = 1 /\ bufs[i].num_edges = 1
        /\ bufs[i].max_edges >= 2 /\ bufs[i].child[2] = i
        /\ child(bufs[i]) = <<i + NumBufs>>

(***************************************************************************)
(* Observations.                                                           *)
(***************************************************************************)
\* f with the count of k raised by one.
Counted(f, k) ==
    IF k \in DOMAIN f THEN [f EXCEPT ![k] = @ + 1] ELSE f @@ (k :> 1)

\* f with the path a finished match of node id k found, by thread t.
Finished(f, k, path, t) ==
    IF k \in DOMAIN f
    THEN [f EXCEPT ![k] = [count |-> @.count + 1, path |-> path, thread |-> t]]
    ELSE f @@ (k :> [count |-> 1, path |-> path, thread |-> t])

(***************************************************************************)
(* AncestorMatcher.match_ancestors: the calling thread.                    *)
(***************************************************************************)
Slice(j) == PyAt(epoch_slices(ancestors_file), j)
NumEpochs == num_epochs(ancestors_file)

first_node_id_stale(tsb) == tsb_num_nodes(tsb) - 1

\* node_id = self.tree_sequence_builder.num_nodes: the first id of an epoch.
first_node_id(tsb) == tsb_num_nodes(tsb)

\* match_ancestors: single threaded when num_threads <= 0, else the queue and
\* the worker threads are created.
MatchAncestors ==
    /\ pc = "match_ancestors"
    /\ pc' = "epoch_loop"
    /\ epoch_index' = start_epoch
    /\ worker' = IF num_threads <= 0 THEN <<>>
                 ELSE [t \in 1..num_threads |-> [pc |-> "get", work |-> None]]
    /\ match_queue' = <<>> /\ unfinished_tasks' = 0
    /\ UNCHANGED <<bufVars, inputVars, matcherVars, ancestor_id, node_id,
                   epoch_results, commit_j, fileVars, clockVars, obs>>

\* for j in range(self.start_epoch, self.num_epochs): the head of an epoch.
EpochLoop ==
    /\ pc = "epoch_loop"
    /\ epoch_index < NumEpochs
    /\ ~IndexError(epoch_slices(ancestors_file), epoch_index)
    /\ ancestor_id' = Slice(epoch_index)[1]
    /\ node_id' = first_node_id(tree_sequence_builder)
    /\ pc' = "dispatch"
    /\ UNCHANGED <<bufVars, inputVars, matcherVars, epoch_index, epoch_results,
                   commit_j, queueVars, fileVars, clockVars, obs>>

\* The epoch loop is over: stop the workers (multi threaded) or return to
\* match_ancestors (single threaded).
EpochLoopEnd ==
    /\ pc = "epoch_loop"
    /\ epoch_index >= NumEpochs
    /\ pc' = IF num_threads <= 0 THEN "store_output" ELSE "stop_workers"
    /\ commit_j' = 0
    /\ UNCHANGED <<bufVars, inputVars, matcherVars, epoch_index, ancestor_id,
                   node_id, epoch_results, queueVars, fileVars, clockVars, obs>>

\* matcher.mean_traceback_size after find_path, a statistic the matcher
\* library reports for the match: positive, here the number of edges found.
matcher_mean_traceback_size(path) == Len(path)

\* What a finished match r of node id nid leaves in the arrays of the thread
\* with index t - 1.
MatchDone(t, r, nid) ==
    /\ results' = [results EXCEPT ![t] = r.results]
    /\ match' = [match EXCEPT ![t] = r.match]
    /\ num_matches' = [num_matches EXCEPT ![t] = r.num_matches]
    /\ mean_traceback_size' = [mean_traceback_size EXCEPT ![t] =
                                   @ + matcher_mean_traceback_size(r.path)]
    /\ obs' = [obs EXCEPT !.finished = Finished(@, nid, r.path, t - 1),
                          !.dispatch_log = IF num_threads <= 0
                                           THEN Append(@, <<epoch_index, nid>>)
                                           ELSE @]

AncestorMatchDone(t, r, nid) == ~r.raised /\ MatchDone(t, r, nid)

\* Single threaded: a = next(self.haplotypes) and __ancestor_find_path inline.
DispatchInline ==
    /\ pc = "dispatch" /\ num_threads <= 0
    /\ ancestor_id < Slice(epoch_index)[2]
    /\ haplotypes < ancestors_file.num_ancestors
    /\ AncestorMatchDone(1, ancestor_find_path(
                                 ancestors_file, tree_sequence_builder, results[1],
                                 num_matches[1], ancestor_id, node_id,
                                 At(ancestors_file.haplotype, haplotypes)),
                         node_id)
    /\ haplotypes' = haplotypes + 1
    /\ node_id' = node_id + 1
    /\ ancestor_id' = ancestor_id + 1
    /\ UNCHANGED <<bufVars, inputVars, tree_sequence_builder, start_epoch, pc,
                   epoch_index, epoch_results, commit_j, queueVars, fileVars, clockVars>>

\* Multi threaded: a = next(self.haplotypes) and match_queue.put, which blocks
\* while the queue is full.
DispatchPut ==
    /\ pc = "dispatch" /\ num_threads > 0
    /\ ancestor_id < Slice(epoch_index)[2]
    /\ haplotypes < ancestors_file.num_ancestors
    /\ Len(match_queue) < queue_depth
    /\ match_queue' = Append(match_queue,
                             WorkItem(ancestor_id, node_id,
                                      At(ancestors_file.haplotype, haplotypes)))
    /\ unfinished_tasks' = unfinished_tasks + 1
    /\ haplotypes' = haplotypes + 1
    /\ node_id' = node_id + 1
    /\ ancestor_id' = ancestor_id + 1
    /\ obs' = [obs EXCEPT !.dispatch_log = Append(@, <<epoch_index, node_id>>)]
    /\ UNCHANGED <<bufVars, inputVars, tree_sequence_builder, results, match,
                   num_matches, mean_traceback_size, start_epoch, pc, epoch_index, epoch_results,
                   commit_j, worker, fileVars, clockVars>>

\* The dispatch loop is over: the barrier (multi threaded) or the commit.
DispatchEnd ==
    /\ pc = "dispatch"
    /\ ancestor_id >= Slice(epoch_index)[2]
    /\ pc' = IF num_threads <= 0 THEN "complete_epoch" ELSE "join"
    /\ UNCHANGED <<bufVars, inputVars, matcherVars, epoch_index, ancestor_id,
                   node_id, epoch_results, commit_j, queueVars, fileVars, clockVars, obs>>

JoinReturnsOnEmpty == match_queue = <<>>

\* Queue.join returns when no task is unfinished.
JoinReturns == unfinished_tasks = 0

\* match_queue.join(): block until all matches have completed.
Join ==
    /\ pc = "join"
    /\ JoinReturns
    /\ pc' = "complete_epoch"
    /\ UNCHANGED <<bufVars, inputVars, matcherVars, epoch_index, ancestor_id,
                   node_id, epoch_results, commit_j, queueVars, fileVars, clockVars, obs>>

\* np.where(a == c)[0]: the indexes, ascending.
np_where(a, c) ==
    LET hit(i) == a[i + 1] = c
    IN SelectSeq([i \in 1..Len(a) |-> i - 1], hit)

\* a[index] for an array of indexes.
np_take(a, index) == [i \in 1..Len(index) |-> At(a, index[i])]

num_ancestors_in_epoch_short(slice) == slice[2] - slice[1] - 1

\* num_ancestors_in_epoch = end - start.
num_ancestors_in_epoch(slice) == slice[2] - slice[1]

\* store_output: the tree sequence dumped to output_path.
store_output(tsb) == get_tree_sequence(tsb)

\* __complete_epoch: epoch_results = ResultBuffer.combine(self.results).
CompleteEpoch ==
    /\ pc = "complete_epoch"
    /\ epoch_results' = combine(results)
    /\ commit_j' = 0
    /\ pc' = "commit_node"
    /\ UNCHANGED <<bufVars, inputVars, matcherVars, epoch_index, ancestor_id,
                   node_id, queueVars, fileVars, clockVars, obs>>

\* One iteration of the commit loop over the combined buffer er, for the epoch
\* e and the node time t: c = child[0] + j, add_node and add_path with the
\* edges of child c reversed.
CommitIteration(er, e, t) ==
    /\ ~IndexError(child(er), 0)
    /\ LET c == At(child(er), 0) + commit_j
           index == np_where(child(er), c)
           new == tsb_num_nodes(tree_sequence_builder)
           l == np_reverse(np_take(left(er), index))
           r == np_reverse(np_take(right(er), index))
           p == np_reverse(np_take(parent(er), index))
       IN /\ tree_sequence_builder' =
                 tsb_add_path(tsb_add_node(tree_sequence_builder, t), new, l, r, p)
          /\ obs' = [obs EXCEPT
                        !.add_node_log = Append(@, <<e, new>>),
                        !.path_calls = Append(@,
                            [epoch |-> e, node |-> new,
                             edges |-> [i \in 1..Len(l) |-> <<l[i], r[i], p[i]>>]])]
    /\ commit_j' = commit_j + 1

\* for j in range(num_ancestors_in_epoch): add_node and add_path.
CommitNode ==
    /\ pc = "commit_node"
    /\ commit_j < num_ancestors_in_epoch(Slice(epoch_index))
    /\ CommitIteration(epoch_results, epoch_index,
                       At(ancestors_file.time, Slice(epoch_index)[1]))
    /\ UNCHANGED <<bufVars, inputVars, results, match, num_matches,
                   mean_traceback_size, start_epoch, haplotypes, pc, epoch_index, ancestor_id, node_id,
                   epoch_results, queueVars, fileVars, clockVars>>

\* The end of a commit that leaves the statistics and the buffers as they are.
CommitMutationsKeep ==
    /\ pc = "commit_node"
    /\ commit_j >= num_ancestors_in_epoch(Slice(epoch_index))
    /\ tree_sequence_builder' =
           tsb_add_mutations(tree_sequence_builder, site(epoch_results),
                             node(epoch_results), derived_state(epoch_results))
    /\ obs' = [obs EXCEPT !.mutations_log = Append(@, epoch_index)]
    /\ pc' = "epoch_output"
    /\ UNCHANGED <<bufVars, inputVars, results, match, num_matches,
                   mean_traceback_size, start_epoch, haplotypes,
                   epoch_index, ancestor_id, node_id, epoch_results, commit_j,
                   queueVars, fileVars, clockVars>>

\* After the commit loop: add_mutations, the statistics reset and every
\* buffer cleared.
CommitMutations ==
    /\ pc = "commit_node"
    /\ commit_j >= num_ancestors_in_epoch(Slice(epoch_index))
    /\ tree_sequence_builder' =
           tsb_add_mutations(tree_sequence_builder, site(epoch_results),
                             node(epoch_results), derived_state(epoch_results))
    /\ mean_traceback_size' = [i \in 1..Len(mean_traceback_size) |-> 0]
    /\ num_matches' = [i \in 1..Len(num_matches) |-> 0]
    /\ results' = [i \in 1..Len(results) |-> clear(results[i])]
    /\ obs' = [obs EXCEPT !.mutations_log = Append(@, epoch_index)]
    /\ pc' = "epoch_output"
    /\ UNCHANGED <<bufVars, inputVars, match, start_epoch, haplotypes,
                   epoch_index, ancestor_id, node_id, epoch_results, commit_j,
                   queueVars, fileVars, clockVars>>

\* delta.total_seconds() >= self.output_interval * 60: the checkpoint, and
\* self.last_output_time = time.time(). The wall clock is read at now; the
\* store is taken to end within the same reading.
Checkpoint ==
    /\ pc = "epoch_output"
    /\ \E now \in LaterTimes :
           /\ interval_elapsed(time_time(now), last_output_time, output_interval)
           /\ clock' = now
           /\ last_output_time' = time_time(now)
    /\ output_file' = store_output(tree_sequence_builder)
    /\ num_stores' = num_stores + 1
    /\ epoch_index' = epoch_index + 1
    /\ pc' = "epoch_loop"
    /\ UNCHANGED <<bufVars, inputVars, matcherVars, ancestor_id, node_id,
                   epoch_results, commit_j, queueVars, output_interval, obs>>

\* The output interval has not passed: no checkpoint.
NoCheckpoint ==
    /\ pc = "epoch_output"
    /\ \E now \in LaterTimes :
           /\ ~interval_elapsed(time_time(now), last_output_time, output_interval)
           /\ clock' = now
    /\ epoch_index' = epoch_index + 1
    /\ pc' = "epoch_loop"
    /\ UNCHANGED <<bufVars, inputVars, matcherVars, ancestor_id, node_id,
                   epoch_results, commit_j, queueVars, fileVars, output_interval,
                   last_output_time, obs>>

\* for j in range(self.num_threads): match_queue.put(None).
PutSentinel(at) ==
    /\ pc = at
    /\ commit_j < num_threads
    /\ Len(match_queue) < queue_depth
    /\ match_queue' = Append(match_queue, None)
    /\ unfinished_tasks' = unfinished_tasks + 1
    /\ commit_j' = commit_j + 1
    /\ UNCHANGED <<bufVars, inputVars, matcherVars, pc, epoch_index, ancestor_id,
                   node_id, epoch_results, worker, fileVars, clockVars, obs>>

\* Every sentinel is in the queue.
SentinelsEnd(at, to) ==
    /\ pc = at
    /\ commit_j >= num_threads
    /\ pc' = to
    /\ UNCHANGED <<bufVars, inputVars, matcherVars, epoch_index, ancestor_id,
                   node_id, epoch_results, commit_j, queueVars, fileVars, clockVars, obs>>

\* for j in range(self.num_threads): match_threads[j].join().
JoinThreads(at, to) ==
    /\ pc = at
    /\ \A t \in 1..Len(worker) : worker[t].pc = "exited"
    /\ pc' = to
    /\ UNCHANGED <<bufVars, inputVars, matcherVars, epoch_index, ancestor_id,
                   node_id, epoch_results, commit_j, queueVars, fileVars, clockVars, obs>>

\* match_ancestors: ts = self.store_output(), and the return.
StoreOutput ==
    /\ pc = "store_output"
    /\ output_file' = store_output(tree_sequence_builder)
    /\ num_stores' = num_stores + 1
    /\ pc' = "done"
    /\ UNCHANGED <<bufVars, inputVars, matcherVars, epoch_index, ancestor_id,
                   node_id, epoch_results, commit_j, queueVars, clockVars, obs>>

(***************************************************************************)
(* The worker threads: match_worker(thread_index), thread_index = t - 1.   *)
(***************************************************************************)
task_done_all(unfinished) == 0

\* A task_done that is lost: the count stays as it is.
task_done_lost(unfinished) == unfinished

\* Queue.task_done: one task fewer is unfinished.
task_done(unfinished) == unfinished - 1

\* work = match_queue.get(): blocks while the queue is empty.
WorkerGet(t) ==
    /\ t \in DOMAIN worker
    /\ worker[t].pc = "get"
    /\ match_queue # <<>>
    /\ LET work == Head(match_queue)
       IN /\ worker' = [worker EXCEPT ![t] =
                 [pc |-> IF work = None THEN "break" ELSE "work", work |-> work]]
          /\ obs' = IF work = None THEN obs
                    ELSE [obs EXCEPT !.taken = Counted(@, work.node_id)]
    /\ match_queue' = Tail(match_queue)
    /\ UNCHANGED <<bufVars, inputVars, matcherVars, mainVars, unfinished_tasks,
                   fileVars, clockVars>>

\* A worker that leaves thread_index at its default, 0.
WorkerMatchDefaultIndex(t) ==
    /\ t \in DOMAIN worker
    /\ worker[t].pc = "work"
    /\ worker[t].work.kind = "ancestor"
    /\ AncestorMatchDone(1, ancestor_find_path(
                                 ancestors_file, tree_sequence_builder, results[1],
                                 num_matches[1], worker[t].work.ancestor_id,
                                 worker[t].work.node_id, worker[t].work.a),
                         worker[t].work.node_id)
    /\ worker' = [worker EXCEPT ![t].pc = "task_done"]
    /\ UNCHANGED <<bufVars, inputVars, tree_sequence_builder, start_epoch,
                   haplotypes, mainVars, match_queue, unfinished_tasks, fileVars, clockVars>>

\* self.__ancestor_find_path(ancestor_id, node_id, a, thread_index).
WorkerMatch(t) ==
    /\ t \in DOMAIN worker
    /\ worker[t].pc = "work"
    /\ worker[t].work.kind = "ancestor"
    /\ AncestorMatchDone(t, ancestor_find_path(
                                 ancestors_file, tree_sequence_builder, results[t],
                                 num_matches[t], worker[t].work.ancestor_id,
                                 worker[t].work.node_id, worker[t].work.a),
                         worker[t].work.node_id)
    /\ worker' = [worker EXCEPT ![t].pc = "task_done"]
    /\ UNCHANGED <<bufVars, inputVars, tree_sequence_builder, start_epoch,
                   haplotypes, mainVars, match_queue, unfinished_tasks, fileVars, clockVars>>

\* match_queue.task_done() after a match, and back to the head of the loop.
WorkerTaskDone(t) ==
    /\ t \in DOMAIN worker
    /\ worker[t].pc = "task_done"
    /\ unfinished_tasks' = task_done(unfinished_tasks)
    /\ worker' = [worker EXCEPT ![t] = [pc |-> "get", work |-> None]]
    /\ UNCHANGED <<bufVars, inputVars, matcherVars, mainVars, match_queue,
                   fileVars, clockVars, obs>>

\* A worker that marks the sentinel done and goes back to match_queue.get().
WorkerBreakContinue(t) ==
    /\ t \in DOMAIN worker
    /\ worker[t].pc = "break"
    /\ unfinished_tasks' = task_done(unfinished_tasks)
    /\ worker' = [worker EXCEPT ![t].pc = "get"]
    /\ UNCHANGED <<bufVars, inputVars, matcherVars, mainVars, match_queue,
                   fileVars, clockVars, obs>>

\* work is None: break, match_queue.task_done() and the thread ends.
WorkerBreak(t) ==
    /\ t \in DOMAIN worker
    /\ worker[t].pc = "break"
    /\ unfinished_tasks' = task_done(unfinished_tasks)
    /\ worker' = [worker EXCEPT ![t].pc = "exited"]
    /\ UNCHANGED <<bufVars, inputVars, matcherVars, mainVars, match_queue,
                   fileVars, clockVars, obs>>

(***************************************************************************)
(* SampleMatcher.                                                          *)
(***************************************************************************)
\* Every index, whether the arrays differ there or not.
np_where_all(a, b) == [i \in 1..Len(a) |-> i - 1]

\* np.where(a != b)[0]: the indexes, ascending.
np_where_ne(a, b) ==
    LET differs(i) == a[i + 1] # b[i + 1]
    IN SelectSeq([i \in 1..Len(a) |-> i - 1], differs)

\* __process_sample once _find_path returned found: the mutations where the
\* haplotype differs from the match.
process_sample_found(found, diffs, sample_id, haplotype) ==
    [results |-> add_mutations_scalar(found.results, diffs, sample_id,
                                      np_take(haplotype, diffs)),
     match |-> found.match,
     num_matches |-> found.num_matches,
     path |-> found.path]

process_sample_diffs(found, sample_id, haplotype) ==
    process_sample_found(found, np_where_ne(haplotype, found.match), sample_id,
                         haplotype)

\* SampleMatcher.__process_sample for one thread: the thread's buffer, scratch
\* array and match count after the call, and the path found.
process_sample(tsb, res, count, sample_id, haplotype, num_sites) ==
    process_sample_diffs(_find_path(tsb, res, count, sample_id, haplotype, 0,
                                    num_sites), sample_id, haplotype)

num_samples == Len(sample_haplotypes)

\* Sample ids that start at zero.
sample_ids_from_zero(tsb, n) == [j \in 1..n |-> j - 1]

\* self.sample_ids = np.arange(start, end), start = the builder's num_nodes
\* and end = start + self.num_samples.
sample_ids(tsb, n) == [j \in 1..n |-> tsb_num_nodes(tsb) + j - 1]

\* match_samples(input, ancestors_ts, num_threads): SampleMatcher(input_file,
\* ancestors_ts), the tree sequence restored into a new builder. The samples
\* form the epoch after the last epoch of ancestors. A SampleMatcher has no
\* checkpoint timer: the timer of the ancestor matcher is gone with it.
NewSampleMatcher(ancestors_ts) ==
    /\ tree_sequence_builder' = restore_tree_sequence_builder(ancestors_ts)
    /\ results' = [i \in 1..NumSlots(num_threads) |-> ResultBuffer(DefaultChunk)]
    /\ match' = [i \in 1..NumSlots(num_threads) |-> np_zeros(ancestors_file.num_sites)]
    /\ num_matches' = [i \in 1..NumSlots(num_threads) |-> 0]
    /\ mean_traceback_size' = [i \in 1..NumSlots(num_threads) |-> 0]
    /\ haplotypes' = 0
    /\ epoch_index' = NumEpochs
    /\ node_id' = tsb_num_nodes(restore_tree_sequence_builder(ancestors_ts))
    /\ pc' = "match_samples"
    /\ num_stores' = 0
    /\ output_interval' = OutputInterval(NoInterval)
    /\ clock' = 0 /\ last_output_time' = 0
    /\ UNCHANGED <<bufVars, inputVars, start_epoch, ancestor_id, epoch_results,
                   commit_j, queueVars, output_file, obs>>

\* infer: match_samples is called with the tree sequence match_ancestors
\* returned.
SampleMatcher ==
    /\ pc = "done"
    /\ NewSampleMatcher(output_file)

\* match_samples: single threaded when num_threads <= 0, else the queue and
\* the worker threads are created.
MatchSamples ==
    /\ pc = "match_samples"
    /\ pc' = "sample_dispatch"
    /\ worker' = IF num_threads <= 0 THEN <<>>
                 ELSE [t \in 1..num_threads |-> [pc |-> "get", work |-> None]]
    /\ match_queue' = <<>> /\ unfinished_tasks' = 0
    /\ UNCHANGED <<bufVars, inputVars, matcherVars, epoch_index, ancestor_id,
                   node_id, epoch_results, commit_j, fileVars, clockVars, obs>>

\* Single threaded: sample_id = num_nodes + j and __process_sample inline.
SampleInline ==
    /\ pc = "sample_dispatch" /\ num_threads <= 0
    /\ haplotypes < num_samples
    /\ MatchDone(1, process_sample(
                         tree_sequence_builder, results[1], num_matches[1],
                         tsb_num_nodes(tree_sequence_builder) + haplotypes,
                         At(sample_haplotypes, haplotypes),
                         ancestors_file.num_sites),
                 tsb_num_nodes(tree_sequence_builder) + haplotypes)
    /\ haplotypes' = haplotypes + 1
    /\ UNCHANGED <<bufVars, inputVars, tree_sequence_builder, start_epoch,
                   mainVars, queueVars, fileVars, clockVars>>

\* Multi threaded: match_queue.put((sample_id, a)) over zip(sample_ids,
\* sample_haplotypes); sample_ids = arange(num_nodes, num_nodes + num_samples).
SamplePut ==
    /\ pc = "sample_dispatch" /\ num_threads > 0
    /\ haplotypes < num_samples
    /\ Len(match_queue) < queue_depth
    /\ match_queue' = Append(match_queue,
                             SampleItem(At(sample_ids(tree_sequence_builder,
                                                      num_samples), haplotypes),
                                        At(sample_haplotypes, haplotypes)))
    /\ unfinished_tasks' = unfinished_tasks + 1
    /\ haplotypes' = haplotypes + 1
    /\ node_id' = node_id + 1
    /\ obs' = [obs EXCEPT !.dispatch_log =
                  Append(@, <<epoch_index, At(sample_ids(tree_sequence_builder,
                                                         num_samples), haplotypes)>>)]
    /\ UNCHANGED <<bufVars, inputVars, tree_sequence_builder, results, match,
                   num_matches, mean_traceback_size, start_epoch, pc, epoch_index, ancestor_id,
                   epoch_results, commit_j, worker, fileVars, clockVars>>

\* Every sample is dispatched: stop the workers (multi threaded) or combine.
SampleDispatchEnd ==
    /\ pc = "sample_dispatch"
    /\ haplotypes >= num_samples
    /\ pc' = IF num_threads <= 0 THEN "sample_combine" ELSE "sample_stop_workers"
    /\ commit_j' = 0
    /\ UNCHANGED <<bufVars, inputVars, matcherVars, epoch_index, ancestor_id,
                   node_id, epoch_results, queueVars, fileVars, clockVars, obs>>

\* self.__process_sample(sample_id, a, thread_index) in a worker.
WorkerProcessSample(t) ==
    /\ t \in DOMAIN worker
    /\ worker[t].pc = "work"
    /\ worker[t].work.kind = "sample"
    /\ MatchDone(t, process_sample(
                         tree_sequence_builder, results[t], num_matches[t],
                         worker[t].work.node_id, worker[t].work.a,
                         ancestors_file.num_sites),
                 worker[t].work.node_id)
    /\ worker' = [worker EXCEPT ![t].pc = "task_done"]
    /\ UNCHANGED <<bufVars, inputVars, tree_sequence_builder, start_epoch,
                   haplotypes, mainVars, match_queue, unfinished_tasks, fileVars, clockVars>>

\* match_samples: results = ResultBuffer.combine(self.results).
SampleCombine ==
    /\ pc = "sample_combine"
    /\ epoch_results' = combine(results)
    /\ commit_j' = 0
    /\ pc' = "sample_commit"
    /\ UNCHANGED <<bufVars, inputVars, matcherVars, epoch_index, ancestor_id,
                   node_id, queueVars, fileVars, clockVars, obs>>

\* for j in range(self.num_samples): add_node(0) and add_path.
SampleCommitNode ==
    /\ pc = "sample_commit"
    /\ commit_j < num_samples
    /\ CommitIteration(epoch_results, epoch_index, 0)
    /\ UNCHANGED <<bufVars, inputVars, results, match, num_matches,
                   mean_traceback_size, start_epoch, haplotypes, pc, epoch_index, ancestor_id, node_id,
                   epoch_results, queueVars, fileVars, clockVars>>

\* After the commit loop of match_samples: add_mutations.
SampleCommitMutations ==
    /\ pc = "sample_commit"
    /\ commit_j >= num_samples
    /\ tree_sequence_builder' =
           tsb_add_mutations(tree_sequence_builder, site(epoch_results),
                             node(epoch_results), derived_state(epoch_results))
    /\ obs' = [obs EXCEPT !.mutations_log = Append(@, epoch_index)]
    /\ pc' = "samples_done"
    /\ UNCHANGED <<bufVars, inputVars, results, match, num_matches,
                   mean_traceback_size, start_epoch, haplotypes, epoch_index, ancestor_id, node_id, epoch_results,
                   commit_j, queueVars, fileVars, clockVars>>

(***************************************************************************)
(* Spec: infer(num_threads): match_ancestors, then match_samples, with no  *)
(* failure and no resume.                                                  *)
(***************************************************************************)
Workers == 1..MaxThreads

AncestorsNext ==
    \/ MatchAncestors
    \/ EpochLoop
    \/ EpochLoopEnd
    \/ DispatchPut
    \/ DispatchEnd
    \/ Join
    \/ CompleteEpoch
    \/ CommitNode
    \/ CommitMutations
    \/ Checkpoint
    \/ NoCheckpoint
    \/ PutSentinel("stop_workers")
    \/ SentinelsEnd("stop_workers", "join_threads")
    \/ JoinThreads("join_threads", "store_output")
    \/ StoreOutput
    \/ \E t \in Workers : WorkerGet(t)
    \/ \E t \in Workers : WorkerMatch(t)
    \/ \E t \in Workers : WorkerTaskDone(t)
    \/ \E t \in Workers : WorkerBreak(t)

SamplesNext ==
    \/ SampleMatcher
    \/ MatchSamples
    \/ SampleInline
    \/ SamplePut
    \/ SampleDispatchEnd
    \/ PutSentinel("sample_stop_workers")
    \/ SentinelsEnd("sample_stop_workers", "sample_join_threads")
    \/ JoinThreads("sample_join_threads", "sample_combine")
    \/ SampleCombine
    \/ SampleCommitNode
    \/ SampleCommitMutations
    \/ \E t \in Workers : WorkerProcessSample(t)

Next == AncestorsNext \/ DispatchInline \/ SamplesNext

Spec == AncInit /\ [][Next]_vars

(***************************************************************************)
(* Claims about the pipeline.                                              *)
(***************************************************************************)
InSeq(x, sq) == \E i \in 1..Len(sq) : sq[i] = x

\* A match is in flight: a task of the queue is unfinished or a worker is
\* inside its matching call.
MatchInFlight ==
    \/ unfinished_tasks > 0
    \/ match_queue # <<>>
    \/ \E t \in DOMAIN worker : worker[t].pc \in {"work", "task_done"}

\* C1: the builder is mutated (add_node, add_path, add_mutations, restore)
\* only while no match is in flight: at every step that changes the builder no
\* task is unfinished, the queue is empty and no worker is inside a matching
\* call; and an item is dispatched only when the commit of every earlier
\* epoch that dispatched items has finished with its add_mutations.
C1_CommitOnlyWhileQuiescent ==
    [][/\ tree_sequence_builder' # tree_sequence_builder => ~MatchInFlight
       /\ obs'.dispatch_log # obs.dispatch_log =>
             \A i \in 1..Len(obs.dispatch_log) :
                 obs.dispatch_log[i][1] < epoch_index =>
                     InSeq(obs.dispatch_log[i][1], obs.mutations_log)]_vars

\* A commit step of an epoch that every worker of a full pool matched for.
C1_Witness ==
    /\ num_threads = MaxThreads
    /\ pc = "commit_node" /\ commit_j > 0
    /\ \A t \in 1..MaxThreads : \E n \in DOMAIN obs.finished :
           obs.finished[n].thread = t - 1 /\ InSeq(<<epoch_index, n>>, obs.dispatch_log)

\* The <<left, right, parent>> rows of buffer b whose child is n, in order.
EdgesOfChild(b, n) ==
    LET index == np_where(child(b), n)
    IN [i \in 1..Len(index) |->
           <<At(left(b), index[i]), At(right(b), index[i]), At(parent(b), index[i])>>]

\* The sites of the mutations of buffer b whose node is n, in order.
SitesOfNode(b, n) == np_take(site(b), np_where(node(b), n))

\* C2: in multi-threaded ancestor matching, when match_queue.join has
\* returned and __complete_epoch starts, every item dispatched in the epoch
\* was taken exactly once, its match finished exactly once, the edges and the
\* focal-site mutations of the match are in the buffer of the thread that
\* matched it and in no other buffer, and no worker holds an item or is still
\* matching.
C2_BarrierAfterAllMatched ==
    (num_threads > 0 /\ pc = "complete_epoch") =>
        /\ unfinished_tasks = 0 /\ match_queue = <<>>
        /\ \A t \in DOMAIN worker : worker[t].pc = "get"
        /\ \A i \in 1..Len(obs.dispatch_log) :
               LET n == obs.dispatch_log[i][2]
               IN obs.dispatch_log[i][1] = epoch_index =>
                     /\ n \in DOMAIN obs.taken /\ obs.taken[n] = 1
                     /\ n \in DOMAIN obs.finished /\ obs.finished[n].count = 1
                     /\ obs.finished[n].path # <<>>
                     /\ EdgesOfChild(results[obs.finished[n].thread + 1], n)
                            = obs.finished[n].path
                     /\ SitesOfNode(results[obs.finished[n].thread + 1], n)
                            = At(ancestors_file.focal_sites, n)
                     /\ \A u \in DOMAIN results \ {obs.finished[n].thread + 1} :
                            /\ EdgesOfChild(results[u], n) = <<>>
                            /\ SitesOfNode(results[u], n) = <<>>

\* The barrier is passed after two workers matched items of the epoch.
C2_Witness ==
    /\ num_threads > 1 /\ pc = "complete_epoch"
    /\ \E n1, n2 \in DOMAIN obs.finished :
           /\ obs.finished[n1].thread # obs.finished[n2].thread
           /\ InSeq(<<epoch_index, n1>>, obs.dispatch_log)
           /\ InSeq(<<epoch_index, n2>>, obs.dispatch_log)

\* C3: every add_path call is the only one for its node id and receives the
\* edges the match dispatched with that node id found, all of them and no
\* others, in the reverse of the order the matcher returned them.
C3_AddPathGetsOwnEdges ==
    \A i \in 1..Len(obs.path_calls) :
        LET call == obs.path_calls[i]
        IN /\ call.node \in DOMAIN obs.finished
           /\ call.edges = np_reverse(obs.finished[call.node].path)
           /\ \A k \in 1..Len(obs.path_calls) :
                  k # i => obs.path_calls[k].node # call.node

\* The node ids of one log are distinct and grow with the epoch.
LogMonotonic(log) ==
    \A i, k \in 1..Len(log) :
        /\ i # k => log[i][2] # log[k][2]
        /\ log[i][1] < log[k][1] => log[i][2] < log[k][2]

\* C5: node ids are assigned monotonically across epochs: an id pre-allocated
\* at dispatch or created by add_node in a later epoch is greater than every
\* id of an earlier epoch, and no id is dispatched twice or created twice.
C5_NodeIdsMonotonic ==
    /\ LogMonotonic(obs.dispatch_log)
    /\ LogMonotonic(obs.add_node_log)
    /\ \A i \in 1..Len(obs.dispatch_log), k \in 1..Len(obs.add_node_log) :
           LET d == obs.dispatch_log[i]
               a == obs.add_node_log[k]
           IN /\ d[1] < a[1] => d[2] < a[2]
              /\ a[1] < d[1] => a[2] < d[2]

\* Three epochs of ancestors and the epoch of samples are committed.
C5_Witness ==
    /\ pc = "samples_done" /\ NumEpochs >= 3
    /\ Len(obs.add_node_log) = ancestors_file.num_ancestors + num_samples

\* The number of entries of a log for epoch e.
CountEpoch(log, e) == Cardinality({i \in 1..Len(log) : log[i][1] = e})

\* Epoch e is completely committed, or not committed at all.
EpochCommitted(e) ==
    /\ CountEpoch(obs.add_node_log, e) = Slice(e)[2] - Slice(e)[1]
    /\ Cardinality({i \in 1..Len(obs.path_calls) : obs.path_calls[i].epoch = e})
           = Slice(e)[2] - Slice(e)[1]
    /\ Cardinality({i \in 1..Len(obs.mutations_log) : obs.mutations_log[i] = e}) = 1

EpochUntouched(e) ==
    /\ CountEpoch(obs.add_node_log, e) = 0
    /\ \A i \in 1..Len(obs.path_calls) : obs.path_calls[i].epoch # e
    /\ ~InSeq(e, obs.mutations_log)

\* C8: store_output persists the builder only at a clean epoch boundary: at
\* every step that writes the output file every epoch is completely committed
\* (all its add_node and add_path calls and its add_mutations) or not at all,
\* no match is in flight, and the nodes of the snapshot end with an epoch.
C8_CheckpointAtEpochBoundary ==
    [][(output_file' # output_file \/ num_stores' # num_stores) =>
          /\ \A e \in 1..(NumEpochs - 1) : EpochCommitted(e) \/ EpochUntouched(e)
          /\ ~MatchInFlight
          /\ \E e \in 0..(NumEpochs - 1) : Len(output_file'.time) = Slice(e)[2]]_vars

\* A checkpoint was written by a multi-threaded run with epochs still to match.
C8_Witness ==
    /\ num_threads > 0 /\ num_stores > 0
    /\ pc = "epoch_loop" /\ epoch_index < NumEpochs
    /\ output_file # NoFile

(***************************************************************************)
(* SpecPair: match_ancestors run single threaded and uninterrupted, then   *)
(* run again over the same ancestors, either with worker threads or single *)
(* threaded, stopped after a checkpoint and resumed with resume=True.      *)
(***************************************************************************)
\* The variables of the calling thread, the queue and the output, as a new
\* call of match_ancestors finds them.
NewCall ==
    /\ pc' = "match_ancestors"
    /\ epoch_index' = 0 /\ ancestor_id' = 0 /\ node_id' = 0
    /\ epoch_results' = NoBuffer /\ commit_j' = 0
    /\ match_queue' = <<>> /\ unfinished_tasks' = 0 /\ worker' = <<>>

\* The fields of a newly constructed AncestorMatcher m.
NewMatcher(m) ==
    /\ tree_sequence_builder' = m.tree_sequence_builder
    /\ results' = m.results /\ match' = m.match /\ num_matches' = m.num_matches
    /\ mean_traceback_size' = m.mean_traceback_size
    /\ start_epoch' = m.start_epoch /\ haplotypes' = m.haplotypes
    /\ clock' = 0 /\ last_output_time' = time_time(0)
    /\ UNCHANGED output_interval

\* The first run is over; the second run is a fresh one with threads workers,
\* and the builder of the first run is kept for comparison.
SecondRun(threads, run) ==
    /\ pc = "done" /\ obs.run = "first"
    /\ num_threads' = threads
    /\ NewMatcher(AncestorMatcher(ancestors_file, threads, FALSE, NoFile))
    /\ NewCall
    /\ output_file' = NoFile /\ num_stores' = 0
    /\ obs' = [NoObs EXCEPT !.add_node_log = <<<<0, 0>>>>, !.run = run,
                            !.baseline = tree_sequence_builder]
    /\ UNCHANGED <<bufVars, ancestors_file, sample_haplotypes, builder_call>>

RunThreaded == \E threads \in 1..MaxThreads : SecondRun(threads, "threaded")

RunInterrupted == SecondRun(0, "interrupted")

\* The process is stopped mid-run, between two epochs, a checkpoint on disk.
Stop ==
    /\ pc = "epoch_loop" /\ obs.run = "interrupted"
    /\ epoch_index < NumEpochs
    /\ num_stores > 0
    /\ pc' = "stopped"
    /\ UNCHANGED <<bufVars, inputVars, matcherVars, epoch_index, ancestor_id,
                   node_id, epoch_results, commit_j, queueVars, fileVars, clockVars, obs>>

\* match_ancestors(..., resume=True): AncestorMatcher.__init__ restores the
\* builder from the checkpoint and computes start_epoch.
Resume ==
    /\ pc = "stopped"
    /\ ~AncestorMatcher(ancestors_file, 0, TRUE, output_file).raised
    /\ NewMatcher(AncestorMatcher(ancestors_file, 0, TRUE, output_file))
    /\ NewCall
    /\ obs' = [obs EXCEPT !.run = "resumed"]
    /\ UNCHANGED <<bufVars, inputVars, fileVars>>

\* next(self.haplotypes) raises StopIteration, or an assertion of
\* __ancestor_find_path fails.
DispatchFails ==
    \/ haplotypes >= ancestors_file.num_ancestors
    \/ ancestor_find_path(ancestors_file, tree_sequence_builder, results[1],
                          num_matches[1], ancestor_id, node_id,
                          At(ancestors_file.haplotype, haplotypes)).raised

\* Single threaded: the exception leaves match_ancestors.
DispatchRaises ==
    /\ pc = "dispatch" /\ num_threads <= 0
    /\ ancestor_id < Slice(epoch_index)[2]
    /\ DispatchFails
    /\ pc' = "aborted"
    /\ UNCHANGED <<bufVars, inputVars, matcherVars, epoch_index, ancestor_id,
                   node_id, epoch_results, commit_j, queueVars, fileVars, clockVars, obs>>

PairInit == AncInit /\ num_threads = 0 /\ num_samples = 1

PairNext ==
    \/ AncestorsNext
    \/ DispatchInline
    \/ RunThreaded
    \/ RunInterrupted
    \/ Stop
    \/ Resume
    \/ DispatchRaises

SpecPair == PairInit /\ [][PairNext]_vars

ToSet(sq) == {sq[i] : i \in 1..Len(sq)}

\* C4: a run with num_threads >= 1 ends with the same set of edges and the
\* same set of mutations in the builder as the run with num_threads = 0 over
\* the same ancestors.
C4_ThreadedSameAsSingle ==
    (obs.run = "threaded" /\ pc = "done") =>
        /\ ToSet(tree_sequence_builder.edges) = ToSet(obs.baseline.edges)
        /\ ToSet(tree_sequence_builder.mutations) = ToSet(obs.baseline.mutations)

\* C6: a single-threaded run checkpointed, stopped and resumed does not
\* abort, and ends with the nodes, the set of edges and the set of mutations
\* the uninterrupted run ended with.
C6_ResumedSameAsUninterrupted ==
    obs.run = "resumed" =>
        /\ pc # "aborted"
        /\ pc = "done" =>
              /\ tree_sequence_builder.time = obs.baseline.time
              /\ ToSet(tree_sequence_builder.edges) = ToSet(obs.baseline.edges)
              /\ ToSet(tree_sequence_builder.mutations)
                     = ToSet(obs.baseline.mutations)

(***************************************************************************)
(* SpecFail: multi-threaded match_ancestors in which a matching call of a  *)
(* worker may raise.                                                       *)
(***************************************************************************)
\* self.__ancestor_find_path raises in a worker: the exception leaves
\* match_worker, which has no handler, before match_queue.task_done(), and the
\* thread ends.
WorkerRaises(t) ==
    /\ t \in DOMAIN worker
    /\ worker[t].pc = "work"
    /\ worker' = [worker EXCEPT ![t].pc = "dead"]
    /\ UNCHANGED <<bufVars, inputVars, matcherVars, mainVars, match_queue,
                   unfinished_tasks, fileVars, clockVars, obs>>

FailInit == AncInit /\ num_threads > 0 /\ num_samples = 1

FailNext ==
    \/ AncestorsNext
    \/ \E t \in Workers : WorkerRaises(t)

SpecFail == FailInit /\ [][FailNext]_vars

\* The producer waits: in match_queue.join with a task unfinished, or in
\* match_queue.put with the queue full.
ProducerWaits ==
    \/ pc = "join" /\ unfinished_tasks > 0
    \/ pc \in {"dispatch", "stop_workers"} /\ Len(match_queue) >= queue_depth

\* No worker will ever call task_done or take an item again.
NoWorkerRuns ==
    \A t \in DOMAIN worker :
        \/ worker[t].pc = "dead"
        \/ worker[t].pc = "get" /\ match_queue = <<>>

\* C7: once a matching call of a worker has raised, the producer is never
\* left waiting at the barrier or on a full queue with no worker that could
\* release it: the failure reaches the calling thread and the run aborts.
C7_WorkerFailureAborts ==
    (\E t \in DOMAIN worker : worker[t].pc = "dead") =>
        ~(ProducerWaits /\ NoWorkerRuns /\ pc # "aborted")

(***************************************************************************)
(* SpecQueue: one worker thread and batches larger than the queue: an      *)
(* epoch of QueueFactor + MaxBacklog ancestors, then as many samples.      *)
(***************************************************************************)
\* The root and one epoch of n ancestors.
OneEpoch(n) == [i \in 1..(n + 1) |-> IF i = 1 THEN 3 ELSE 2]

QueueInit ==
    /\ AncStartFor({AncestorFile(OneEpoch(QueueFactor + MaxBacklog))},
                   {QueueFactor + MaxBacklog})
    /\ num_threads = 1

QueueNext ==
    \/ AncestorsNext
    \/ SampleMatcher
    \/ MatchSamples
    \/ SamplePut
    \/ SampleDispatchEnd
    \/ PutSentinel("sample_stop_workers")
    \/ SentinelsEnd("sample_stop_workers", "sample_join_threads")
    \/ JoinThreads("sample_join_threads", "sample_combine")
    \/ SampleCombine
    \/ SampleCommitNode
    \/ SampleCommitMutations
    \/ \E t \in Workers : WorkerProcessSample(t)

SpecQueue == QueueInit /\ [][QueueNext]_vars

\* The producer has an ancestor or a sample to put next.
PutPending ==
    \/ pc = "dispatch" /\ ancestor_id < Slice(epoch_index)[2]
    \/ pc = "sample_dispatch" /\ haplotypes < num_samples

\* The producer is in match_queue.put and the queue is full.
PutBlocked == PutPending /\ Len(match_queue) = QueueFactor * num_threads

\* Worker t takes an item from the queue now or after the steps it is in.
WillTake(t) == worker[t].pc \in {"get", "work", "task_done"}

\* C14: the queue never holds more than 8 * num_threads items; while the
\* producer is blocked in put no item is added, the producer stays where it
\* is and a worker is there to take an item; and whenever the queue is not
\* full the producer's put can go ahead.
C14_QueueBounded ==
    /\ [](num_threads > 0 => Len(match_queue) <= QueueFactor * num_threads)
    /\ [](PutBlocked => \E t \in DOMAIN worker : WillTake(t))
    /\ []((PutPending /\ ~PutBlocked /\ num_threads > 0)
              => ENABLED (DispatchPut \/ SamplePut))
    /\ [][PutBlocked => /\ Len(match_queue') <= Len(match_queue)
                        /\ haplotypes' = haplotypes /\ pc' = pc]_vars

\* The producer went on after the queue had been full: the queue is full
\* again and the last item of the epoch is the next to put.
C14_Witness ==
    /\ pc = "dispatch" /\ Len(match_queue) = QueueFactor * num_threads
    /\ ancestor_id = Slice(epoch_index)[2] - 1
    /\ Len(obs.dispatch_log) > QueueFactor * num_threads

(***************************************************************************)
(* Further claims about the pipeline (Spec).                               *)
(***************************************************************************)
\* C15: with num_threads 0 or 1 there is no work queue and no worker thread:
\* no worker exists, nothing is ever put on a queue, and every finished match
\* ran with thread_index 0.
C15_SequentialUpToOne ==
    num_threads \in {0, 1} =>
        /\ worker = <<>>
        /\ match_queue = <<>> /\ unfinished_tasks = 0
        /\ \A n \in DOMAIN obs.finished : obs.finished[n].thread = 0

\* The commit of the last epoch wrote a checkpoint: the output path already
\* holds the final state of the builder.
LastEpochCheckpointed ==
    num_stores > 0 /\ output_file = store_output(tree_sequence_builder)

\* C16: when match_ancestors returns, the output path holds the final state
\* of the builder, and the final state is written once: match_ancestors does
\* not write it again when the commit of the last epoch wrote a checkpoint.
C16_FinalStateStoredOnce ==
    /\ [](pc = "done" => output_file = store_output(tree_sequence_builder))
    /\ [][(pc = "store_output" /\ LastEpochCheckpointed)
              => num_stores' = num_stores]_vars

\* The calling thread is in match_samples or past it.
SamplePhase ==
    pc \in {"sample_dispatch", "sample_stop_workers", "sample_join_threads",
            "sample_combine", "sample_commit", "samples_done"}

\* The entries of a log <<epoch, node id>> for the samples, in order.
SampleEntries(log) == SelectSeq(log, LAMBDA x : x[1] = NumEpochs)

\* The path sample j is due: the copying path of its haplotype over the whole
\* site axis through the restored ancestors.
SamplePath(j) ==
    _find_path(restore_tree_sequence_builder(output_file),
               ResultBuffer(DefaultChunk), 0, 0, At(sample_haplotypes, j), 0,
               ancestors_file.num_sites).path

\* C17: the samples get the node ids after the restored ancestor nodes, in
\* order and without a gap: the j-th sample is dispatched with id start + j,
\* a match finished for id start + j found the path of the j-th haplotype
\* over [0, num_sites), and the j-th add_node of the commit has time 0 and
\* returns start + j.
C17_SampleIdsContiguous ==
    SamplePhase =>
        LET start == Len(output_file.time)
            sent == SampleEntries(obs.dispatch_log)
            made == SampleEntries(obs.add_node_log)
        IN /\ start = ancestors_file.num_ancestors
           /\ Len(sent) <= num_samples /\ Len(made) <= num_samples
           /\ \A k \in 1..Len(sent) : sent[k][2] = start + k - 1
           /\ \A n \in DOMAIN obs.finished :
                  n >= start =>
                      /\ n < start + num_samples
                      /\ obs.finished[n].path = SamplePath(n - start)
                      /\ obs.finished[n].path[1][2] = ancestors_file.num_sites
                      /\ obs.finished[n].path[Len(obs.finished[n].path)][1] = 0
           /\ \A k \in 1..Len(made) :
                  /\ made[k][2] = start + k - 1
                  /\ At(tree_sequence_builder.time, start + k - 1) = 0
           /\ pc = "samples_done" =>
                  /\ Len(sent) = num_samples /\ Len(made) = num_samples
                  /\ tsb_num_nodes(tree_sequence_builder) = start + num_samples

\* Two samples matched by two threads and committed.
C17_Witness ==
    /\ pc = "samples_done" /\ num_threads = 2 /\ num_samples = 2
    /\ \A t \in 1..2 : results[t].num_edges > 0

\* Every ancestor is dispatched with its own id as node id: the root is node
\* 0 and a run that is not resumed adds the nodes in the order of the ancestors.
DispatchPairs ==
    /\ pc = "dispatch" => node_id = ancestor_id
    /\ \A i \in 1..Len(match_queue) :
           match_queue[i].kind = "ancestor"
               => match_queue[i].node_id = match_queue[i].ancestor_id
    /\ \A t \in DOMAIN worker :
           worker[t].work.kind = "ancestor"
               => worker[t].work.node_id = worker[t].work.ancestor_id

\* The ancestors of epoch e.
AncestorsOf(e) == Slice(e)[1]..(Slice(e)[2] - 1)

\* The builder holds a mutation to 1 at every focal site of every ancestor of
\* every epoch add_mutations was called for.
FocalCommitted ==
    \A e \in 1..(NumEpochs - 1) :
        InSeq(e, obs.mutations_log) =>
            \A a \in AncestorsOf(e) :
                \A k \in 1..Len(At(ancestors_file.focal_sites, a)) :
                    InSeq(<<At(ancestors_file.focal_sites, a)[k], a, 1>>,
                          tree_sequence_builder.mutations)

\* A step that finishes the match of ancestor n.
AncestorMatched(n) ==
    /\ n \in DOMAIN obs'.finished /\ n < ancestors_file.num_ancestors
    /\ n \notin DOMAIN obs.finished

\* What the match of ancestor n leaves: the scratch array of the thread that
\* ran it is the haplotype with its focal sites set to 0.
MatchLeavesHaplotype(n) ==
    LET t == obs'.finished[n].thread + 1
        h == At(ancestors_file.haplotype, n)
        focal == At(ancestors_file.focal_sites, n)
    IN /\ \A k \in 1..Len(focal) : At(h, focal[k]) = 1 /\ At(match'[t], focal[k]) = 0
       /\ \A x \in 0..(Len(h) - 1) :
              (\A k \in 1..Len(focal) : focal[k] # x) => At(match'[t], x) = At(h, x)

\* C18: the mutations an epoch's add_mutations call commits hold, for every
\* ancestor of the epoch and every focal site of it, the record (focal site,
\* the ancestor's node id, 1); and a finished match leaves the thread's match
\* array equal to the haplotype with the focal sites reset to 0.
C18_FocalSitesCommitted ==
    /\ [](DispatchPairs /\ FocalCommitted)
    /\ [][\A n \in 1..MaxAncestors : AncestorMatched(n) => MatchLeavesHaplotype(n)]_vars

\* An epoch of two ancestors matched by two threads and committed, the next
\* epoch under way.
C18_Witness ==
    /\ num_threads = 2 /\ InSeq(1, obs.mutations_log)
    /\ Slice(1)[2] - Slice(1)[1] = 2
    /\ pc = "dispatch" /\ epoch_index = 2
    /\ \E n1, n2 \in DOMAIN obs.finished : obs.finished[n1].thread # obs.finished[n2].thread

\* The mutation rows of node n among rows.
RowsOfNode(rows, n) == SelectSeq(rows, LAMBDA m : m[2] = n)

\* One record per site where haplotype h differs from the copy m, in site
\* order, for node n, the derived state being the allele of h.
Residuals(h, m, n) ==
    LET sites == SelectSeq([i \in 1..Len(h) |-> i - 1],
                           LAMBDA x : At(h, x) # At(m, x))
    IN [k \in 1..Len(sites) |-> <<sites[k], n, At(h, sites[k])>>]

\* A step that finishes the match of the sample with node id n.
SampleMatched(n) ==
    /\ n \in DOMAIN obs'.finished /\ n \notin DOMAIN obs.finished
    /\ n >= ancestors_file.num_ancestors

\* The copy the matcher finds for sample j among the restored ancestors.
SampleCopy(j) ==
    find_path(restore_tree_sequence_builder(output_file),
              At(sample_haplotypes, j), 0, ancestors_file.num_sites).match

\* C19: the match of a sample adds to the thread's buffer exactly the records
\* of the sites where the haplotype differs from the copy left in the
\* thread's match array, and once the samples are committed the builder
\* holds exactly those records for the sample's node.
C19_SampleResiduals ==
    /\ [][\A n \in 0..(MaxAncestors + MaxSamples) :
              SampleMatched(n) =>
                  LET t == obs'.finished[n].thread + 1
                      h == At(sample_haplotypes, n - ancestors_file.num_ancestors)
                  IN RowsOfNode(MutationRows(results'[t]), n)
                         = Residuals(h, match'[t], n)]_vars
    /\ [](pc = "samples_done" =>
              \A j \in 0..(num_samples - 1) :
                  LET n == ancestors_file.num_ancestors + j
                  IN RowsOfNode(tree_sequence_builder.mutations, n)
                         = Residuals(At(sample_haplotypes, j), SampleCopy(j), n))

\* Two samples committed after two threads matched them, one of them with a
\* residual mutation and with a site where it agrees with its copy.
C19_Witness ==
    /\ pc = "samples_done" /\ num_threads = 2 /\ num_samples = 2
    /\ \A t \in 1..2 : results[t].num_edges > 0
    /\ \E j \in 0..1 :
           /\ RowsOfNode(tree_sequence_builder.mutations,
                         ancestors_file.num_ancestors + j) # <<>>
           /\ \E x \in 0..(ancestors_file.num_sites - 1) :
                  At(sample_haplotypes, j)[x + 1] = SampleCopy(j)[x + 1]

(***************************************************************************)
(* SpecRestore: match_samples bootstrapped from any tree sequence that     *)
(* match_ancestors wrote, the checkpoint of a run stopped between two      *)
(* epochs included.                                                        *)
(***************************************************************************)
\* The ancestor run is stopped between two epochs with a checkpoint on disk,
\* and match_samples is called with the tree sequence loaded from it.
MatchSamplesOnCheckpoint ==
    /\ pc = "epoch_loop"
    /\ epoch_index < NumEpochs
    /\ num_stores > 0
    /\ NewSampleMatcher(output_file)

RestoreInit == AncInit /\ num_samples = 1

RestoreNext ==
    \/ Next
    \/ MatchSamplesOnCheckpoint

SpecRestore == RestoreInit /\ [][RestoreNext]_vars

\* The node count of ts is not the number of ancestors of the ancestors file,
\* or its site count is not the number of sites of the input.
CountsDisagree(ts) ==
    \/ Len(ts.time) # ancestors_file.num_ancestors
    \/ ts.num_sites # ancestors_file.num_sites

\* C20: while a sample matcher exists whose builder was restored from a tree
\* sequence whose node or site count disagrees with the expected one, no
\* haplotype has been matched and the builder is as it was restored (nothing
\* committed).
C20_MismatchDetected ==
    ((pc = "match_samples" \/ SamplePhase) /\ CountsDisagree(output_file)) =>
        /\ \A i \in DOMAIN num_matches : num_matches[i] = 0
        /\ tree_sequence_builder = restore_tree_sequence_builder(output_file)

(***************************************************************************)
(* Further claims about resume (SpecPair).                                 *)
(***************************************************************************)
\* C22: the step that resumes from a checkpoint of n nodes, 0 < n <
\* num_ancestors, leaves start_epoch at the index of the epoch whose first
\* ancestor is n, and the haplotype iterator at ancestor n.
C22_ResumeStartsAtFirstUncommitted ==
    [][(obs.run = "interrupted" /\ obs'.run = "resumed"
            /\ Len(output_file.time) > 0
            /\ Len(output_file.time) < ancestors_file.num_ancestors) =>
          /\ start_epoch' \in 0..(NumEpochs - 1)
          /\ Slice(start_epoch')[1] = Len(output_file.time)
          /\ haplotypes' = Len(output_file.time)]_vars

(***************************************************************************)
(* Claims about the life of the worker threads (Spec).                     *)
(***************************************************************************)
\* Number of sentinels the queue holds.
SentinelsQueued == Len(SelectSeq(match_queue, LAMBDA w : w = None))

\* The workers that took a sentinel.
Stopping == {t \in DOMAIN worker : worker[t].pc \in {"break", "exited"}}

\* The producer is in, or past, the loop that enqueues the sentinels.
AncestorTeardown ==
    pc \in {"stop_workers", "join_threads", "store_output", "done",
            "match_samples"}

SampleTeardown ==
    pc \in {"sample_stop_workers", "sample_join_threads", "sample_combine",
            "sample_commit", "samples_done"}

\* C23: a sentinel is in the queue, or a worker has left its loop, only once
\* the last epoch is committed (for samples, once every sample is enqueued);
\* while the sentinels are enqueued and the threads joined, every sentinel
\* enqueued is in the queue or was taken by a worker of its own, a worker that
\* took one takes nothing more, and when the threads are joined all workers
\* have exited and the queue is empty with no unfinished task.
C23_WorkersTornDownOnce ==
    /\ []((SentinelsQueued > 0 \/ Stopping # {}) =>
            \/ AncestorTeardown /\ epoch_index >= NumEpochs
            \/ SampleTeardown /\ haplotypes >= num_samples)
    /\ [](pc \in {"stop_workers", "join_threads", "sample_stop_workers",
                  "sample_join_threads"} =>
            /\ commit_j <= num_threads
            /\ commit_j = SentinelsQueued + Cardinality(Stopping))
    /\ []((pc \in {"store_output", "sample_combine"} /\ num_threads > 0) =>
            /\ \A t \in DOMAIN worker : worker[t].pc = "exited"
            /\ Len(worker) = num_threads
            /\ match_queue = <<>> /\ unfinished_tasks = 0)
    /\ [][\A t \in DOMAIN worker :
            (worker[t].pc \in {"break", "exited"} /\ pc # "match_samples") =>
                /\ t \in DOMAIN worker'
                /\ worker'[t].pc \in {worker[t].pc, "exited"}
                /\ worker'[t].work = worker[t].work]_vars

\* Two workers that served three epochs of ancestors have both exited.
C23_Witness ==
    /\ pc = "store_output" /\ num_threads = 2 /\ NumEpochs >= 3
    /\ \A t \in DOMAIN worker : worker[t].pc = "exited"
    /\ Len(obs.taken) >= 2

(***************************************************************************)
(* Claims about the state an epoch commit leaves (Spec).                   *)
(***************************************************************************)
RECURSIVE SumOf(_)
SumOf(a) == IF a = <<>> THEN 0 ELSE a[1] + SumOf(Tail(a))

\* The node ids dispatched in epoch e.
DispatchedIn(e) ==
    {obs.dispatch_log[i][2] : i \in {k \in 1..Len(obs.dispatch_log) :
                                        obs.dispatch_log[k][1] = e}}

\* C24: when an epoch commit is over, every thread's buffer is empty and both
\* statistics of every thread are zero; and in the commit of epoch e the
\* combined buffer holds, for every node dispatched in epoch e, the edges its
\* match found and its focal-site mutations, holds no record of any other
\* node, and the per-thread match counts add up to the number of ancestors of
\* the epoch.
C24_EpochCommitResets ==
    /\ pc = "epoch_output" =>
          \A i \in DOMAIN results :
              /\ results[i].num_edges = 0 /\ results[i].num_mutations = 0
              /\ num_matches[i] = 0 /\ mean_traceback_size[i] = 0
    /\ pc = "commit_node" =>
          /\ \A n \in DispatchedIn(epoch_index) :
                 /\ EdgesOfChild(epoch_results, n) = obs.finished[n].path
                 /\ SitesOfNode(epoch_results, n)
                        = At(ancestors_file.focal_sites, n)
          /\ \A i \in 1..Len(child(epoch_results)) :
                 child(epoch_results)[i] \in DispatchedIn(epoch_index)
          /\ \A i \in 1..Len(node(epoch_results)) :
                 node(epoch_results)[i] \in DispatchedIn(epoch_index)
          /\ Cardinality(DispatchedIn(epoch_index))
                 = num_ancestors_in_epoch(Slice(epoch_index))
          /\ SumOf(num_matches) = num_ancestors_in_epoch(Slice(epoch_index))

\* The commit of a later epoch whose two ancestors were matched by two
\* threads, after an earlier epoch left records behind it.
C24_Witness ==
    /\ pc = "commit_node" /\ epoch_index >= 2
    /\ Len(num_matches) = 2 /\ num_matches[1] > 0 /\ num_matches[2] > 0
    /\ mean_traceback_size[1] > 0 /\ mean_traceback_size[2] > 0
    /\ epoch_results.num_edges >= 2
    /\ Len(tree_sequence_builder.edges) > 0

(***************************************************************************)
(* Claims about the per-thread slots (Spec).                               *)
(***************************************************************************)
\* A step writes the ResultBuffer, the scratch array or a statistic at slot t.
SlotWritten(t) ==
    \/ results'[t] # results[t]
    \/ match'[t] # match[t]
    \/ num_matches'[t] # num_matches[t]
    \/ mean_traceback_size'[t] # mean_traceback_size[t]

\* The edges the step appended to the buffer at slot t are one block behind
\* the edges it held: the path the match of node nid found, all of child nid.
AppendedBlock(t, nid) ==
    LET old == EdgeRows(results[t])
        new == EdgeRows(results'[t])
        path == obs'.finished[nid].path
    IN /\ Len(new) = Len(old) + Len(path) /\ Len(path) > 0
       /\ SubSeq(new, 1, Len(old)) = old
       /\ \A i \in 1..Len(path) :
              new[Len(old) + i] = <<path[i][1], path[i][2], path[i][3], nid>>

\* C25: while the calling thread stays where it is in a multi-threaded run, a
\* step that writes slot t is the match of the worker with index t - 1, it
\* writes no other slot, and the edges it appends are one contiguous block of
\* its own node.
C25_SlotsAreThreadLocal ==
    [][(num_threads > 0 /\ pc' = pc) =>
          \A t \in DOMAIN results :
              SlotWritten(t) =>
                  /\ t \in DOMAIN worker
                  /\ worker[t].pc = "work" /\ worker'[t].pc = "task_done"
                  /\ \A u \in DOMAIN results \ {t} : ~SlotWritten(u)
                  /\ \A u \in DOMAIN worker \ {t} : worker'[u] = worker[u]
                  /\ AppendedBlock(t, worker[t].work.node_id)]_vars

\* The second worker has matched into its buffer, which already held the
\* records of an earlier match of the epoch, while the first worker is
\* matching.
C25_Witness ==
    /\ num_threads = 2 /\ Len(worker) = 2
    /\ worker[1].pc = "work" /\ worker[2].pc = "task_done"
    /\ num_matches[2] >= 1 /\ num_matches[1] >= 1
    /\ results[2].num_edges > 0 /\ results[1].num_edges > 0

(***************************************************************************)
(* A further claim about ResultBuffer.combine (SpecBuf).                   *)
(***************************************************************************)
\* C26: the buffer combine returned was created with an edge capacity of the
\* total edge count of its inputs (at least 1) and a mutation capacity of at
\* least their total mutation count, and neither area has grown since it was
\* created.
C26_CombineNeverGrows ==
    lastCombined # NoBuffer =>
        LET given == SubSeq(bufs, 1, combinedOf)
        IN /\ lastCombined.chunk_size = Max(1, TotalEdges(given))
           /\ lastCombined.max_edges = lastCombined.chunk_size
           /\ lastCombined.chunk_size >= TotalMutations(given)
           /\ lastCombined.max_mutations = lastCombined.chunk_size

(***************************************************************************)
(* Claims about the checkpoint timer (Spec).                               *)
(***************************************************************************)
\* At least output_interval minutes lie between the times last and now, in
\* seconds; never so for the interval of an unset output_interval.
MinutesElapsed(last, now) ==
    /\ output_interval # VeryLargeInterval
    /\ now - last >= 60 * output_interval

\* match_ancestors is running and has not reached its final store_output.
MidRun == pc \notin {"done", "match_samples"} /\ ~SamplePhase

\* C27: the step that ends an epoch commit writes a checkpoint exactly if at
\* least output_interval minutes have passed between last_output_time and the
\* time read; a checkpoint written is the builder's state and sets
\* last_output_time to the time read, no checkpoint leaves both as they were;
\* last_output_time is the time of construction until the first checkpoint;
\* and with output_interval unset nothing is written before the run ends.
C27_CheckpointWhenIntervalElapsed ==
    /\ [][(pc = "epoch_output" /\ pc' # pc) =>
            /\ clock' >= clock
            /\ IF MinutesElapsed(last_output_time, clock')
               THEN /\ num_stores' = num_stores + 1
                    /\ output_file' = store_output(tree_sequence_builder)
                    /\ last_output_time' = clock'
               ELSE /\ num_stores' = num_stores
                    /\ output_file' = output_file
                    /\ last_output_time' = last_output_time]_vars
    /\ []((MidRun /\ num_stores = 0) => last_output_time = 0)
    /\ []((MidRun /\ output_interval = VeryLargeInterval)
              => num_stores = 0 /\ output_file = NoFile)

\* With an interval of one minute, an epoch was committed before the minute
\* had passed and a later one after it: one checkpoint, at 60 seconds.
C27_Witness ==
    /\ pc = "epoch_loop" /\ output_interval = 1
    /\ epoch_index >= 3
    /\ num_stores = 1 /\ last_output_time = 60
    /\ Len(output_file.time) > 2

(***************************************************************************)
(* Claims about the order of dispatch (Spec: runs that are not resumed).   *)
(***************************************************************************)
\* The entries <<epoch, node id>> of the dispatch log for ancestors, in order.
AncestorEntries == SelectSeq(obs.dispatch_log, LAMBDA x : x[1] < NumEpochs)

\* The work item holds the haplotype of its own ancestor, and its node id is
\* its ancestor id.
OwnHaplotype(w) ==
    w.kind = "ancestor" =>
        /\ w.a = At(ancestors_file.haplotype, w.ancestor_id)
        /\ w.node_id = w.ancestor_id

\* C28: the k-th dispatch is that of ancestor k, with node id k, in the epoch
\* ancestor k belongs to; the haplotype iterator stands at the ancestor the
\* dispatch loop is at, so each dispatch carries the haplotype of its own
\* ancestor; and once the epochs are over every ancestor 1..num_ancestors - 1
\* has been dispatched and the builder holds one node per ancestor, with the
\* ancestor's time.
C28_DispatchedOnceInOrder ==
    /\ \A k \in 1..Len(AncestorEntries) :
           /\ AncestorEntries[k][2] = k
           /\ k \in AncestorsOf(AncestorEntries[k][1])
    /\ Len(AncestorEntries) <= ancestors_file.num_ancestors - 1
    /\ pc = "dispatch" => haplotypes = ancestor_id /\ node_id = ancestor_id
    /\ \A i \in 1..Len(match_queue) : OwnHaplotype(match_queue[i])
    /\ \A t \in DOMAIN worker : OwnHaplotype(worker[t].work)
    /\ pc \in {"store_output", "done"} =>
           /\ Len(AncestorEntries) = ancestors_file.num_ancestors - 1
           /\ tree_sequence_builder.time = ancestors_file.time

\* A run of two workers over four ancestors has dispatched them all.
C28_Witness ==
    /\ pc = "done" /\ num_threads = 2
    /\ ancestors_file.num_ancestors = 4
    /\ Len(AncestorEntries) = 3

(***************************************************************************)
(* SpecTerm: multi-threaded match_ancestors, the calling thread and the    *)
(* worker threads interleaved in every order.                              *)
(***************************************************************************)
TermInit == AncInit /\ num_threads > 0 /\ num_samples = 1

SpecTerm == TermInit /\ [][AncestorsNext]_vars

\* The matching call a worker is about to make fails one of its assertions.
MatchCallFails(t) ==
    /\ t \in DOMAIN worker
    /\ worker[t].pc = "work"
    /\ ancestor_find_path(ancestors_file, tree_sequence_builder, results[t],
                          num_matches[t], worker[t].work.ancestor_id,
                          worker[t].work.node_id, worker[t].work.a).raised

\* The calling thread can take its next step: it is not blocked in
\* match_queue.put, match_queue.join or Thread.join, and has not returned.
ProducerCanStep ==
    \/ pc \in {"match_ancestors", "complete_epoch", "epoch_output", "store_output"}
    \/ pc = "epoch_loop"
         /\ (epoch_index < NumEpochs
                => ~IndexError(epoch_slices(ancestors_file), epoch_index))
    \/ pc = "dispatch"
         /\ \/ ancestor_id >= Slice(epoch_index)[2]
            \/ /\ num_threads > 0
               /\ haplotypes < ancestors_file.num_ancestors
               /\ Len(match_queue) < queue_depth
    \/ pc = "join" /\ JoinReturns
    \/ pc = "commit_node"
         /\ \/ commit_j >= num_ancestors_in_epoch(Slice(epoch_index))
            \/ ~IndexError(child(epoch_results), 0)
    \/ pc = "stop_workers"
         /\ (commit_j >= num_threads \/ Len(match_queue) < queue_depth)
    \/ pc = "join_threads" /\ \A t \in 1..Len(worker) : worker[t].pc = "exited"

\* The worker thread t can take its next step: it is not blocked in
\* match_queue.get, its matching call does not fail, and it has not ended.
WorkerCanStep(t) ==
    /\ t \in DOMAIN worker
    /\ \/ worker[t].pc = "get" /\ match_queue # <<>>
       \/ worker[t].pc = "work" /\ worker[t].work.kind = "ancestor"
                                /\ ~MatchCallFails(t)
       \/ worker[t].pc \in {"task_done", "break"}

\* A step of the calling thread, and a step of the worker thread t.
ProducerMoved == mainVars' # mainVars
WorkerMoved(t) == t \in DOMAIN worker /\ worker'[t] # worker[t]

\* Weak fairness of the calling thread and of each worker thread: a thread
\* that can step from some point on for ever does step again.
FairProducer == []<>(~ProducerCanStep) \/ []<><<ProducerMoved>>_vars
FairWorker(t) == []<>(~WorkerCanStep(t)) \/ []<><<WorkerMoved(t)>>_vars

\* The steps are the steps the fairness conditions speak of: a thread steps
\* only where it can, every step is a step of exactly one thread.
FairnessIsOfTheSteps ==
    [][/\ ProducerMoved => ProducerCanStep
       /\ \A t \in Workers : WorkerMoved(t) => WorkerCanStep(t)
       /\ ProducerMoved \/ \E t \in Workers : WorkerMoved(t)]_vars

\* Every epoch from start_epoch to the last is committed, in increasing order.
AllEpochsCommitted ==
    obs.mutations_log = [i \in 1..(NumEpochs - start_epoch) |-> start_epoch + i - 1]

\* match_ancestors has returned, with every epoch committed and every worker
\* thread ended.
TermDone ==
    /\ pc = "done"
    /\ AllEpochsCommitted
    /\ \A t \in DOMAIN worker : worker[t].pc = "exited"

\* C29: under fair scheduling of the calling thread and of the workers, and
\* when no matching call fails, multi-threaded match_ancestors commits every
\* epoch from start_epoch to the last in increasing order and returns with
\* every worker thread ended; the calling thread is never blocked for ever on
\* a full queue or at the barrier.
C29_FairRunTerminates ==
    (/\ FairProducer
     /\ \A t \in Workers : FairWorker(t)
     /\ [](\A t \in Workers : ~MatchCallFails(t)))
        => /\ <>TermDone
           /\ []<>(~ProducerWaits)

C29_Witness ==
    /\ TermDone
    /\ num_threads > 1
    /\ Len(obs.mutations_log) > 1
    /\ \E i \in 1..Len(obs.finished) : obs.finished[i].thread = 1

(***************************************************************************)
(* SpecAlloc: the low-level constructor called directly, as                *)
(* tests/test_low_level.py calls it.                                       *)
(***************************************************************************)
AllocInit ==
    /\ PipeIdle
    /\ bufs = <<>> /\ added = <<>> /\ lastCombined = NoBuffer
    /\ combinedOf = 0 /\ appends = 0
    /\ \E platform \in Platforms, n \in CapacityExps, e \in CapacityExps :
          builder_call = [platform |-> platform, max_nodes |-> n, max_edges |-> e,
                          outcome |-> "not_called"]

\* _tsinfer.TreeSequenceBuilder(num_sites=1, max_nodes=..., max_edges=...).
ConstructBuilder ==
    /\ builder_call.outcome = "not_called"
    /\ \E o \in TreeSequenceBuilder_new(builder_call.platform, builder_call.max_nodes,
                                        builder_call.max_edges) :
          builder_call' = [builder_call EXCEPT !.outcome = o]
    /\ UNCHANGED <<bufVars, num_threads, ancestors_file, sample_haplotypes,
                   matcherVars, mainVars, queueVars, fileVars, clockVars, obs>>

SpecAlloc == AllocInit /\ [][ConstructBuilder]_vars

\* The call asked for a node capacity or an edge capacity that cannot be
\* allocated.
AskedUnallocatable ==
    Unallocatable(builder_call.max_nodes) \/ Unallocatable(builder_call.max_edges)

\* C21: a TreeSequenceBuilder constructed with a node capacity or an edge
\* capacity that cannot be allocated ends in MemoryError: the constructor
\* neither returns a builder nor fails in another way.
C21_UnallocatableRaisesMemoryError ==
    (builder_call.outcome # "not_called" /\ AskedUnallocatable) =>
        builder_call.outcome = "MemoryError"
====
